---- MODULE Spec2Model ----
(***************************************************************************)
(* Model of the decision / execution pipeline of rig-solana-trader:        *)
(*   strategy/execution.rs  ExecutionEngine (market, limit, DCA orders)    *)
(*   strategy/mod.rs        TradingStrategy::make_decision                 *)
(*   strategy/pipeline.rs   TradingPipeline (process_token, monitor)       *)
(*   examples/autonomous_trader.rs  the periodic driver loop               *)
(*                                                                         *)
(* f64 quantities are modelled as exact numbers in fixed units: slippage   *)
(* and price impact in percent, prices and sizes in tenths, and the        *)
(* quotients the code forms (size / num_entries, cost / executed) as       *)
(* rationals [n, d].  Floating-point rounding is not modelled.             *)
(***************************************************************************)
EXTENDS Integers, Sequences, FiniteSets, TLC

VARIABLES
    \* ---- ExecutionEngine (execution.rs:44-50) and one execute_trade call
    max_retries,      \* ExecutionEngine.max_retries
    max_slippage,     \* ExecutionEngine.max_slippage (percent)
    decision,         \* the TradingDecision handed to execute_trade
    mode,             \* which execute_* function is running
    epc,              \* position inside that function
    attempts,         \* execute_market_order: let mut attempts
    quote,            \* execute_market_order: the quote of the current attempt
    order_size,       \* size_in_sol of the market order being run (rational)
    dca_i,            \* execute_dca_strategy: loop index i
    total_executed,   \* execute_dca_strategy: let mut total_executed
    total_cost,       \* execute_dca_strategy: let mut total_cost
    result,           \* what execute_trade returned
    \* ---- what the venue and the caller saw (history of the call)
    n_quotes,         \* jupiter.quote calls made by the order being run
    n_high,           \* of those, quotes that came back above max_slippage
    n_swaps,          \* jupiter.swap calls made by the order being run
    n_sleeps,         \* sleep(retry_delay) calls made by the order being run
    submitted,        \* price impacts of the quotes handed to jupiter.swap
    n_orders,         \* execute_market_order calls made by this execute_trade
    n_ok,             \* of those, calls that returned Ok
    order_sizes,      \* the size_in_sol those calls were given
    n_swap_err,       \* jupiter.swap calls of the order being run that failed
    price_sum,        \* sum of the prices execute_dca_strategy's orders returned
    \* ---- one TradingStrategy::make_decision call (strategy/mod.rs)
    config,           \* TradingStrategy.config (StrategyConfig)
    llm_analysis,     \* argument llm_analysis: the oracle's verdict text
    risk_score,       \* argument risk_score (tenths)
    dpc,              \* "idle", "input" before the call, "returned" after it
    made,             \* what make_decision returned
    \* ---- the driver loop (autonomous_trader.rs) and TradingPipeline
    driver,           \* where main's loop stands; "exited" once main returned
    exit_at,          \* the call whose error ended main
    cycle,            \* iteration of the loop
    trending,         \* trending_tokens of this iteration
    tok_i,            \* index of the token the for loop is at
    ppc,              \* position inside process_token
    portfolio,        \* TradingStrategy.portfolio
    portfolio_value,  \* current portfolio value (tenths of a SOL)
    positions,        \* monitor_positions: let positions
    mon_i,            \* index of the position the for loop is at
    token_data,       \* what analyze_token returns for each position this pass
    routed,           \* the decision last handed to execute_trade
    sl_sells,         \* execute_exit calls of this iteration, per position
    tp_cycle,         \* execute_partial_exit calls of this iteration, per level
    tp_sells,         \* execute_partial_exit calls of all iterations, per level
    pt_locals,        \* process_token: let token_data, let risk_assessment
    n_exec,           \* execute_trade calls of process_token this iteration, per token
    \* ---- RiskManager (strategy/risk.rs)
    rm_portfolio_value,  \* RiskManager.portfolio_value
    position_limits,  \* RiskManager.position_limits
    market_exposure,  \* RiskManager.market_exposure (an f64: may be NaN, +-inf)
    n_updates,        \* update_portfolio_exposure calls made
    rpc,              \* "idle", "ready" before assess_risk, "assessed" after
    assessment,       \* what assess_risk computed
    \* ---- PerformanceAnalyzer (strategy/analytics.rs)
    trades,           \* PerformanceAnalyzer.trades
    metrics,          \* PerformanceAnalyzer.metrics
    initial_capital,  \* PerformanceAnalyzer.initial_capital (tenths)
    current_capital,  \* PerformanceAnalyzer.current_capital
    peak_capital,     \* PerformanceAnalyzer.peak_capital
    \* ---- TechnicalAnalyzer (strategy/technical.rs)
    price_history,    \* TechnicalAnalyzer.price_history / the prices passed
    tpc,              \* "idle", "ready" (before analyze), "done"
    analysis,         \* what analyze returned, or where it panicked
    \* ---- TradingStrategy.portfolio (strategy/mod.rs)
    book,             \* TradingStrategy.portfolio: address -> PortfolioPosition
    clock,            \* the last value Utc::now().timestamp() returned
    last_call,        \* the last call made on the portfolio
    call_result,      \* what it returned
    \* ---- RiskManager::calculate_stop_loss (strategy/risk.rs)
    sl_price_usd,     \* token.price_usd
    sl_support_levels, \* signals.support_levels
    sl_volatility,    \* signals.volatility_score
    slpc,             \* "idle", "ready" (before the call), "done"
    stop_loss_price,  \* what calculate_stop_loss returned
    \* ---- DataSyncService (database/sync.rs) and trading_loop (main.rs)
    sync_pc,          \* where DataSyncService::start stands
    sync_cycle,       \* iteration of its loop
    trends_left,      \* sync_market_data: entries of trends not yet processed
    sync_last,        \* how the body of the for loop ended for the last entry
    sync_result,      \* what the last sync_market_data call returned
    unprocessed,      \* entries of trends that call returned without processing
    tl_pc,            \* where trading_loop stands
    tl_iter,          \* iteration of its loop
    tl_last,          \* how far the last iteration came
    tl_exit_at,       \* the call whose error ended trading_loop
    \* AggregatedDataProvider (market_data/mod.rs)
    agg_providers,     \* what each provider of self.providers answers
    agg_limit,         \* the limit argument
    agg_pc,            \* "ready" | "done"
    agg_result,        \* the Result of get_trending_tokens
    \* MarketDataStorage.positions and the tasks that call it (storage.rs)
    store_positions,   \* the HashMap inside positions: Arc<RwLock<..>>
    positions_lock,    \* the RwLock: [writer, readers]
    positions_json,    \* contents of data/positions.json
    task_pc,           \* where each task is in its call
    task_op,           \* the call each task is making
    task_base,         \* what a writer read when its mutation began
    n_ops,             \* calls started so far
    serial_positions,  \* the completed writes applied one after another
    partial_seen       \* a reader cloned the map in the middle of a write

execVars == <<max_retries, max_slippage, decision, mode, epc, attempts, quote,
              order_size, dca_i, total_executed, total_cost, result,
              n_quotes, n_high, n_swaps, n_sleeps, submitted, n_orders, n_ok,
              order_sizes, n_swap_err, price_sum>>

decVars == <<config, llm_analysis, risk_score, dpc, made>>

pipeVars == <<driver, exit_at, cycle, trending, tok_i, ppc, portfolio,
              portfolio_value, positions, mon_i, token_data, routed, sl_sells,
              tp_cycle, tp_sells, pt_locals, n_exec>>

riskVars == <<rm_portfolio_value, position_limits, market_exposure,
              n_updates, rpc, assessment>>

perfVars == <<trades, metrics, initial_capital, current_capital,
              peak_capital>>

techVars == <<price_history, tpc, analysis>>

bookVars == <<book, clock, last_call, call_result>>

stopVars == <<sl_price_usd, sl_support_levels, sl_volatility, slpc, stop_loss_price>>

socialVars == <<sync_pc, sync_cycle, trends_left, sync_last, sync_result, unprocessed, tl_pc, tl_iter, tl_last, tl_exit_at>>

aggVars == <<agg_providers, agg_limit, agg_pc, agg_result>>

storeVars == <<store_positions, positions_lock, positions_json, task_pc, task_op, task_base, n_ops, serial_positions, partial_seen>>

auxVars == <<riskVars, perfVars, techVars, bookVars, stopVars, socialVars, aggVars, storeVars>>

coreVars == <<execVars, decVars, pipeVars>>

notRisk == <<coreVars, perfVars, techVars, bookVars, stopVars, socialVars, aggVars, storeVars>>
notPerf == <<coreVars, riskVars, techVars, bookVars, stopVars, socialVars, aggVars, storeVars>>
notTech == <<coreVars, riskVars, perfVars, bookVars, stopVars, socialVars, aggVars, storeVars>>
notBook == <<coreVars, riskVars, perfVars, techVars, stopVars, socialVars, aggVars, storeVars>>
notStop == <<coreVars, riskVars, perfVars, techVars, bookVars, socialVars, aggVars, storeVars>>
notSocial == <<coreVars, riskVars, perfVars, techVars, bookVars, stopVars, aggVars, storeVars>>
notAgg == <<coreVars, riskVars, perfVars, techVars, bookVars, stopVars, socialVars, storeVars>>
notStore == <<coreVars, riskVars, perfVars, techVars, bookVars, stopVars, socialVars, aggVars>>

vars == <<execVars, decVars, pipeVars, auxVars>>

----------------------------------------------------------------------------
(* Bounds of the model *)
MaxEntries == 3
MaxRetriesBound == 3
MaxCycles == 2
MaxUpdates == 2
MaxTrades == 4
MaxPrices == 43
MaxSells == 2
MaxSyncCycles == 2
MaxProviders == 2
MaxTasks == 2
MaxStorageOps == 3
MaxLevels == 2

(* ExecutionEngine::new: max_retries: 3 *)
DefaultMaxRetries == 3

----------------------------------------------------------------------------
(* Exact arithmetic on the quotients the code forms *)

RECURSIVE GCD(_, _)
GCD(a, b) == IF b = 0 THEN a ELSE GCD(b, a % b)

Abs(x) == IF x < 0 THEN -x ELSE x

Rat(n, d) ==
    LET g == GCD(Abs(n), Abs(d))
        s == IF d < 0 THEN -1 ELSE 1
    IN  IF n = 0 THEN [n |-> 0, d |-> 1]
        ELSE [n |-> s * (n \div g), d |-> s * (d \div g)]

RInt(k) == [n |-> k, d |-> 1]
RAdd(a, b) == Rat(a.n * b.d + b.n * a.d, a.d * b.d)
RMul(a, b) == Rat(a.n * b.n, a.d * b.d)
RDiv(a, b) == Rat(a.n * b.d, a.d * b.n)
RLe(a, b) == a.n * b.d <= b.n * a.d
RLt(a, b) == a.n * b.d < b.n * a.d

----------------------------------------------------------------------------
(* Input domains *)

TradeActions == {"Buy", "Sell", "Hold"}
EntryTypes == {"market", "limit", "dca", "Market"}
Sizes == {6, 12}
Slippages == {1, 2}
PriceImpacts == {1, 2, 3}
Prices == {9, 10, 11}
NoDca == [some |-> FALSE, num_entries |-> 0]
\* ten tranches: the smallest count at which nine fills are exactly 90%
EntryCounts == (0..MaxEntries) \cup {10}
DcaConfigs == {NoDca} \cup {[some |-> TRUE, num_entries |-> k] : k \in EntryCounts}

Decisions ==
    [token_ok : BOOLEAN, action : TradeActions, size_in_sol : Sizes,
     entry_type : EntryTypes, max_slippage : Slippages, dca_config : DcaConfigs]

NoDecision ==
    [token_ok |-> TRUE, action |-> "Hold", size_in_sol |-> 0,
     entry_type |-> "none", max_slippage |-> 0, dca_config |-> NoDca]

NoQuote == [price |-> 0, price_impact_pct |-> 0]
Quotes == [price : Prices, price_impact_pct : PriceImpacts]

NoResult == [tag |-> "none"]
ErrResult(e) == [tag |-> "Err", err |-> e]
OkResult(act, amount, price, slip, tx, ty, st) ==
    [tag |-> "Ok", action |-> act, amount_sol |-> amount, price |-> price,
     slippage |-> slip, tx_signature |-> tx, execution_type |-> ty,
     order_status |-> st]

----------------------------------------------------------------------------
(* ExecutionEngine: strategy/execution.rs *)

(* execute_trade: the match on execution_params.entry_type *)
ExecutionKind(d) ==
    CASE d.entry_type = "market" -> "market"
      [] d.entry_type = "limit" -> "limit"
      [] d.entry_type = "dca" /\ d.dca_config.some -> "dca"
      [] OTHER -> "market"

(* off by one: one attempt too many *)
RetryAllowedOffByOne(a) == a <= max_retries

(* execute_market_order: while attempts < self.max_retries *)
RetryAllowed(a) == a < max_retries

(* checks the decision's own max_slippage instead of the engine's *)
SlippageTooHighByDecision(q) == q.price_impact_pct > decision.max_slippage

(* execute_market_order: if slippage > self.max_slippage *)
SlippageTooHigh(q) == q.price_impact_pct > max_slippage

(* goes on to the next attempt at once *)
BackoffSkipped(sleeps) == sleeps

(* execute_market_order: sleep(self.retry_delay).await after attempts += 1 *)
Backoff(sleeps) == sleeps + 1

(* execute_market_order: the Ok(ExecutionResult {..}) of a successful swap *)
MarketResult(d, sz, q) ==
    OkResult(d.action, sz, RInt(q.price), q.price_impact_pct, TRUE,
             "Market", "Completed")

(* execute_dca_strategy: let entry_size = size_in_sol / num_entries *)
EntrySize(d) == RDiv(RInt(d.size_in_sol), RInt(d.dca_config.num_entries))

(* Completed only above 90%, not at it *)
DcaStatusStrict(d, te) ==
    IF RLt(RMul(RInt(d.size_in_sol), Rat(9, 10)), te) THEN "Completed"
    ELSE IF RLt(RInt(0), te) THEN "Partial"
    ELSE "Failed"

(* execute_dca_strategy: the order_status of the result *)
DcaStatus(d, te) ==
    IF RLe(RMul(RInt(d.size_in_sol), Rat(9, 10)), te) THEN "Completed"
    ELSE IF RLt(RInt(0), te) THEN "Partial"
    ELSE "Failed"

(* divides the cost by the target size instead of the executed size *)
DcaAvgPriceOverTarget(te, tc) ==
    IF RLt(RInt(0), te) THEN RDiv(tc, RInt(decision.size_in_sol)) ELSE RInt(0)

(* execute_dca_strategy: let avg_price = ... *)
DcaAvgPrice(te, tc) == IF RLt(RInt(0), te) THEN RDiv(tc, te) ELSE RInt(0)

(* execute_dca_strategy: the Ok(ExecutionResult {..}) it ends with *)
DcaResult(d, te, tc) ==
    OkResult(d.action, te, DcaAvgPrice(te, tc), 0, FALSE, "DCA",
             DcaStatus(d, te))

(* stops one tranche early *)
DcaMoreTranchesShort(d, i) == i + 1 < d.dca_config.num_entries - 1

(* execute_dca_strategy: for i in 0..num_entries, is there a tranche after i *)
DcaMoreTranches(d, i) == i + 1 < d.dca_config.num_entries

(* execute_limit_order: let limit_price = match decision.action *)
LimitPrice(d, q) ==
    IF d.action = "Buy"
    THEN RMul(RInt(q.price), Rat(100 - d.max_slippage, 100))
    ELSE RMul(RInt(q.price), Rat(100 + d.max_slippage, 100))

(* reports the order as filled *)
LimitResultFilled(d, q) ==
    IF d.action \in {"Buy", "Sell"}
    THEN OkResult(d.action, RInt(d.size_in_sol), LimitPrice(d, q), 0, TRUE,
                  "Limit", "Completed")
    ELSE ErrResult("action")

(* execute_limit_order after its quote: Err for an action that is neither
   Buy nor Sell, else the Ok(ExecutionResult {..}) it ends with *)
LimitResult(d, q) ==
    IF d.action \in {"Buy", "Sell"}
    THEN OkResult(d.action, RInt(d.size_in_sol), LimitPrice(d, q), 0, FALSE,
                  "Limit", "Partial")
    ELSE ErrResult("action")

(* What the caller of execute_market_order does with its return value res:
   execute_trade hands it on; execute_dca_strategy's match arm adds a
   successful tranche to the totals, logs a failed one, and goes on. *)
ReturnFromOrder(res, d, m, sz, i, te, tc, nok, ps) ==
    LET ok == res.tag = "Ok"
        te2 == IF ok THEN RAdd(te, sz) ELSE te
        tc2 == IF ok THEN RAdd(tc, RMul(sz, res.price)) ELSE tc
    IN  /\ n_ok' = IF ok THEN nok + 1 ELSE nok
        /\ IF m = "market"
           THEN /\ epc' = "done"
                /\ result' = res
                /\ dca_i' = i
                /\ total_executed' = te
                /\ total_cost' = tc
                /\ price_sum' = ps
           ELSE /\ dca_i' = i + 1
                /\ total_executed' = te2
                /\ total_cost' = tc2
                /\ price_sum' = IF ok THEN RAdd(ps, res.price) ELSE ps
                /\ IF DcaMoreTranches(d, i)
                   THEN epc' = "dca_sleep" /\ result' = NoResult
                   ELSE epc' = "done" /\ result' = DcaResult(d, te2, tc2)

(* execute_market_order up to its first await: attempts = 0 and
   Pubkey::from_str(&decision.token_address)? *)
BeginOrder(d, m, sz, i, te, tc, no, nok, szs, ps) ==
    /\ order_size' = sz
    /\ attempts' = 0
    /\ quote' = NoQuote
    /\ n_quotes' = 0
    /\ n_high' = 0
    /\ n_swaps' = 0
    /\ n_sleeps' = 0
    /\ n_swap_err' = 0
    /\ n_orders' = no + 1
    /\ order_sizes' = szs \cup {sz}
    /\ IF d.token_ok
       THEN /\ epc' = "loop"
            /\ result' = NoResult
            /\ dca_i' = i
            /\ total_executed' = te
            /\ total_cost' = tc
            /\ n_ok' = nok
            /\ price_sum' = ps
       ELSE ReturnFromOrder(ErrResult("pubkey"), d, m, sz, i, te, tc, nok, ps)

(* set_max_retries *)
SetMaxRetries ==
    /\ epc = "idle"
    /\ \E r \in 0..MaxRetriesBound : max_retries' = r
    /\ UNCHANGED <<max_slippage, decision, mode, epc, attempts, quote,
                   order_size, dca_i, total_executed, total_cost, result,
                   n_quotes, n_high, n_swaps, n_sleeps, submitted, n_orders,
                   n_ok, order_sizes>>
    /\ UNCHANGED <<n_swap_err, price_sum>>
    /\ UNCHANGED <<decVars, pipeVars, auxVars>>

(* execute_trade -> execute_market_order *)
StartMarket ==
    /\ epc = "idle"
    /\ \E d \in Decisions :
        /\ ExecutionKind(d) = "market"
        /\ decision' = d
        /\ mode' = "market"
        /\ BeginOrder(d, "market", RInt(d.size_in_sol), 0, RInt(0), RInt(0),
                      0, 0, {}, RInt(0))
    /\ submitted' = {}
    /\ UNCHANGED <<max_retries, max_slippage>>
    /\ UNCHANGED <<decVars, pipeVars, auxVars>>

(* execute_trade -> execute_limit_order, up to its quote call *)
StartLimit ==
    /\ epc = "idle"
    /\ \E d \in Decisions :
        /\ ExecutionKind(d) = "limit"
        /\ decision' = d
        /\ IF d.token_ok
           THEN epc' = "limit_quote" /\ result' = NoResult
           ELSE epc' = "done" /\ result' = ErrResult("pubkey")
    /\ mode' = "limit"
    /\ submitted' = {}
    /\ n_quotes' = 0
    /\ n_swaps' = 0
    /\ UNCHANGED <<max_retries, max_slippage, attempts, quote, order_size,
                   dca_i, total_executed, total_cost, n_high, n_sleeps,
                   n_orders, n_ok, order_sizes>>
    /\ UNCHANGED <<n_swap_err, price_sum>>
    /\ UNCHANGED <<decVars, pipeVars, auxVars>>

(* execute_limit_order: the quote call returns *)
LimitQuote ==
    /\ epc = "limit_quote"
    /\ epc' = "done"
    /\ n_quotes' = n_quotes + 1
    /\ \/ /\ result' = ErrResult("quote")
          /\ quote' = NoQuote
       \/ \E q \in Quotes :
          /\ quote' = q
          /\ result' = LimitResult(decision, q)
    /\ UNCHANGED <<max_retries, max_slippage, decision, mode, attempts,
                   order_size, dca_i, total_executed, total_cost, n_high,
                   n_swaps, n_sleeps, submitted, n_orders, n_ok, order_sizes>>
    /\ UNCHANGED <<n_swap_err, price_sum>>
    /\ UNCHANGED <<decVars, pipeVars, auxVars>>

(* execute_trade -> execute_dca_strategy, up to the first tranche's first await *)
StartDca ==
    /\ epc = "idle"
    /\ \E d \in Decisions :
        /\ ExecutionKind(d) = "dca"
        /\ decision' = d
        /\ IF d.dca_config.num_entries = 0
           THEN /\ epc' = "done"
                /\ result' = DcaResult(d, RInt(0), RInt(0))
                /\ dca_i' = 0
                /\ total_executed' = RInt(0)
                /\ total_cost' = RInt(0)
                /\ n_orders' = 0
                /\ n_ok' = 0
                /\ order_sizes' = {}
                /\ price_sum' = RInt(0)
                /\ UNCHANGED <<attempts, quote, order_size, n_quotes, n_high,
                               n_swaps, n_sleeps, n_swap_err>>
           ELSE BeginOrder(d, "dca", EntrySize(d), 0, RInt(0), RInt(0), 0, 0, {},
                           RInt(0))
    /\ mode' = "dca"
    /\ submitted' = {}
    /\ UNCHANGED <<max_retries, max_slippage>>
    /\ UNCHANGED <<decVars, pipeVars, auxVars>>

(* execute_dca_strategy: the sleep between tranches is over, next tranche *)
DcaNextTranche ==
    /\ epc = "dca_sleep"
    /\ BeginOrder(decision, mode, order_size, dca_i, total_executed,
                  total_cost, n_orders, n_ok, order_sizes, price_sum)
    /\ UNCHANGED <<max_retries, max_slippage, decision, mode, submitted>>
    /\ UNCHANGED <<decVars, pipeVars, auxVars>>

(* execute_market_order: the while condition is false *)
RetriesExhausted ==
    /\ epc = "loop"
    /\ ~RetryAllowed(attempts)
    /\ ReturnFromOrder(ErrResult("exhausted"), decision, mode, order_size,
                       dca_i, total_executed, total_cost, n_ok, price_sum)
    /\ UNCHANGED <<max_retries, max_slippage, decision, mode, attempts, quote,
                   order_size, n_quotes, n_high, n_swaps, n_sleeps, submitted,
                   n_orders, order_sizes>>
    /\ UNCHANGED <<n_swap_err>>
    /\ UNCHANGED <<decVars, pipeVars, auxVars>>

(* execute_market_order: self.jupiter.quote(..).await? fails *)
QuoteFails ==
    /\ epc = "loop"
    /\ RetryAllowed(attempts)
    /\ n_quotes' = n_quotes + 1
    /\ ReturnFromOrder(ErrResult("quote"), decision, mode, order_size,
                       dca_i, total_executed, total_cost, n_ok, price_sum)
    /\ UNCHANGED <<max_retries, max_slippage, decision, mode, attempts, quote,
                   order_size, n_high, n_swaps, n_sleeps, submitted, n_orders,
                   order_sizes>>
    /\ UNCHANGED <<n_swap_err>>
    /\ UNCHANGED <<decVars, pipeVars, auxVars>>

(* execute_market_order: a quote comes back and is checked for slippage *)
QuoteReturns ==
    /\ epc = "loop"
    /\ RetryAllowed(attempts)
    /\ \E q \in Quotes :
        /\ n_quotes' = n_quotes + 1
        /\ n_high' = IF q.price_impact_pct > max_slippage
                     THEN n_high + 1 ELSE n_high
        /\ IF SlippageTooHigh(q)
           THEN /\ attempts' = attempts + 1
                /\ n_sleeps' = Backoff(n_sleeps)
                /\ quote' = NoQuote
                /\ epc' = "loop"
           ELSE /\ attempts' = attempts
                /\ n_sleeps' = n_sleeps
                /\ quote' = q
                /\ epc' = "swap"
    /\ UNCHANGED <<max_retries, max_slippage, decision, mode, order_size,
                   dca_i, total_executed, total_cost, result, n_swaps,
                   submitted, n_orders, n_ok, order_sizes>>
    /\ UNCHANGED <<n_swap_err, price_sum>>
    /\ UNCHANGED <<decVars, pipeVars, auxVars>>

(* execute_market_order: self.jupiter.swap(..).await returns Ok *)
SwapSucceeds ==
    /\ epc = "swap"
    /\ submitted' = submitted \cup {quote.price_impact_pct}
    /\ n_swaps' = n_swaps + 1
    /\ ReturnFromOrder(MarketResult(decision, order_size, quote), decision,
                       mode, order_size, dca_i, total_executed, total_cost,
                       n_ok, price_sum)
    /\ UNCHANGED <<max_retries, max_slippage, decision, mode, attempts, quote,
                   order_size, n_quotes, n_high, n_sleeps, n_orders,
                   order_sizes>>
    /\ UNCHANGED <<n_swap_err>>
    /\ UNCHANGED <<decVars, pipeVars, auxVars>>

(* execute_market_order: self.jupiter.swap(..).await returns Err *)
SwapFails ==
    /\ epc = "swap"
    /\ submitted' = submitted \cup {quote.price_impact_pct}
    /\ n_swaps' = n_swaps + 1
    /\ attempts' = attempts + 1
    /\ n_sleeps' = Backoff(n_sleeps)
    /\ n_swap_err' = n_swap_err + 1
    /\ quote' = NoQuote
    /\ epc' = "loop"
    /\ UNCHANGED <<max_retries, max_slippage, decision, mode, order_size,
                   dca_i, total_executed, total_cost, result, n_quotes,
                   n_high, n_orders, n_ok, order_sizes, price_sum>>
    /\ UNCHANGED <<decVars, pipeVars, auxVars>>

----------------------------------------------------------------------------
(* TradingStrategy::make_decision: strategy/mod.rs *)

Some(v) == [some |-> TRUE, v |-> v]
NoNum == [some |-> FALSE, v |-> 0]
NoStr == [some |-> FALSE, v |-> ""]
UnwrapOr(o, dflt) == IF o.some THEN o.v ELSE dflt

(* StrategyConfig; confidence in tenths, positions in tenths of a SOL *)
Configs ==
    [min_confidence : {7, 8}, min_position_sol : {1}, max_position_sol : {10},
     max_slippage : {1}]

(* The execution_strategy object of the verdict.  A field that is absent
   or has the wrong JSON type reads as None (as_f64, as_str, as_array). *)
NoStrategy ==
    [entry_type |-> NoStr, stop_loss_pct |-> NoNum, take_profit_levels |-> NoNum,
     should_dca |-> FALSE, num_entries |-> NoNum]
Strategies ==
    { NoStrategy,
      [entry_type |-> Some("market"), stop_loss_pct |-> Some(8),
       take_profit_levels |-> Some(15), should_dca |-> FALSE,
       num_entries |-> NoNum],
      [entry_type |-> Some("limit"), stop_loss_pct |-> NoNum,
       take_profit_levels |-> NoNum, should_dca |-> FALSE,
       num_entries |-> NoNum],
      [entry_type |-> Some("dca"), stop_loss_pct |-> NoNum,
       take_profit_levels |-> NoNum, should_dca |-> TRUE,
       num_entries |-> Some(2)],
      [entry_type |-> Some("dca"), stop_loss_pct |-> Some(8),
       take_profit_levels |-> NoNum, should_dca |-> TRUE,
       num_entries |-> NoNum] }

(* The verdict text: not JSON at all, or a JSON value whose fields are each
   present with the expected type (Some) or not (None). *)
InvalidJson ==
    [valid |-> FALSE, confidence |-> NoNum, momentum |-> NoStr,
     liquidity_score |-> NoNum, smart_money_flow |-> NoStr,
     execution_strategy |-> NoStrategy]
Momenta == {"strong_buy", "buy", "neutral", "sell", "strong_sell"}
Flows == {"inflow", "outflow", "neutral"}
Verdicts ==
    [valid : {TRUE},
     confidence : {NoNum} \cup {Some(c) : c \in {5, 7, 8, 10, 100}},
     momentum : {NoStr} \cup {Some(m) : m \in Momenta},
     liquidity_score : {NoNum} \cup {Some(l) : l \in {6, 7, 10}},
     smart_money_flow : {NoStr} \cup {Some(f) : f \in Flows},
     execution_strategy : Strategies]
LlmAnalyses == {InvalidJson} \cup Verdicts
RiskScores == {0, 3, 4, 7, 8, 10}

(* the well-formed verdicts: every required field present and well typed *)
WellFormed(a) ==
    /\ a.valid
    /\ a.confidence.some
    /\ a.momentum.some
    /\ a.liquidity_score.some
    /\ a.smart_money_flow.some

(* only the upper bound *)
ClampUpperOnly(x, lo, hi) == IF RLt(hi, x) THEN hi ELSE x

Clamp(x, lo, hi) ==
    LET m == IF RLt(x, lo) THEN lo ELSE x    \* x.max(lo)
    IN  IF RLt(hi, m) THEN hi ELSE m         \* .min(hi)

(* sells at a risk score of 0.7 already *)
DecideActionSellAtSeven(cfg, confidence, liquidity, risk, momentum, flow) ==
    IF /\ confidence >= cfg.min_confidence
       /\ liquidity >= 7
       /\ risk <= 3
       /\ (momentum = "strong_buy" \/ momentum = "buy")
       /\ flow = "inflow"
    THEN "Buy"
    ELSE IF risk >= 7 \/ momentum = "strong_sell" \/ flow = "outflow"
    THEN "Sell"
    ELSE "Hold"

(* the Buy branch without its risk-score test *)
DecideActionNoRisk(cfg, confidence, liquidity, risk, momentum, flow) ==
    IF /\ confidence >= cfg.min_confidence
       /\ liquidity >= 7
       /\ (momentum = "strong_buy" \/ momentum = "buy")
       /\ flow = "inflow"
    THEN "Buy"
    ELSE IF risk > 7 \/ momentum = "strong_sell" \/ flow = "outflow"
    THEN "Sell"
    ELSE "Hold"

(* make_decision: the if / else if / else that determines action *)
DecideAction(cfg, confidence, liquidity, risk, momentum, flow) ==
    IF /\ confidence >= cfg.min_confidence
       /\ liquidity >= 7
       /\ risk <= 3
       /\ (momentum = "strong_buy" \/ momentum = "buy")
       /\ flow = "inflow"
    THEN "Buy"
    ELSE IF risk > 7 \/ momentum = "strong_sell" \/ flow = "outflow"
    THEN "Sell"
    ELSE "Hold"

(* calculate_position_size(risk_score, trend_strength) *)
calculate_position_size(cfg, risk, trend_strength) ==
    LET base_size == RMul(RInt(cfg.max_position_sol), Rat(2, 10))
        risk_multiplier == Rat(10 - risk, 10)
        trend_multiplier == Rat(trend_strength, 10)
    IN  Clamp(RMul(RMul(base_size, risk_multiplier), trend_multiplier),
              RInt(cfg.min_position_sol), RInt(cfg.max_position_sol))

(* make_decision: let momentum_multiplier = match momentum *)
MomentumMultiplier(momentum) ==
    CASE momentum = "strong_buy" -> Rat(10, 10)
      [] momentum = "buy" -> Rat(8, 10)
      [] momentum = "neutral" -> Rat(5, 10)
      [] OTHER -> Rat(3, 10)

(* make_decision: let final_size = ... *)
FinalSize(cfg, confidence, liquidity, risk, momentum) ==
    LET base_size == calculate_position_size(cfg, risk, confidence)
        l15 == Rat(liquidity * 15, 100)
        liquidity_multiplier == IF RLt(RInt(1), l15) THEN RInt(1) ELSE l15
    IN  Clamp(RMul(RMul(base_size, liquidity_multiplier),
                   MomentumMultiplier(momentum)),
              RInt(cfg.min_position_sol), RInt(cfg.max_position_sol))

(* generate_execution_params; percentages in hundredths *)
generate_execution_params(cfg, risk, st) ==
    [entry_type |-> UnwrapOr(st.entry_type, "Market"),
     stop_loss |-> IF st.stop_loss_pct.some THEN st.stop_loss_pct.v
                   ELSE IF risk > 7 THEN 5 ELSE 10,
     take_profit |-> IF st.take_profit_levels.some
                     THEN <<st.take_profit_levels.v>>
                     ELSE <<10, 20, 30>>,
     max_slippage |-> cfg.max_slippage,
     dca_config |-> IF st.should_dca
                    THEN [some |-> TRUE,
                          num_entries |-> UnwrapOr(st.num_entries, 3)]
                    ELSE NoDca]

(* make_decision(token, llm_analysis, risk_score, ..) *)
make_decision(cfg, a, risk) ==
    IF ~a.valid
    THEN ErrResult("json")      \* serde_json::from_str(&llm_analysis)?
    ELSE
      LET confidence == UnwrapOr(a.confidence, 0)
          momentum == UnwrapOr(a.momentum, "neutral")
          liquidity == UnwrapOr(a.liquidity_score, 0)
          flow == UnwrapOr(a.smart_money_flow, "neutral")
      IN  [tag |-> "Ok",
           action |-> DecideAction(cfg, confidence, liquidity, risk,
                                   momentum, flow),
           size_in_sol |-> FinalSize(cfg, confidence, liquidity, risk,
                                     momentum),
           confidence |-> confidence,
           risk_score |-> risk,
           execution_params |->
               generate_execution_params(cfg, risk, a.execution_strategy)]

NoConfig ==
    [min_confidence |-> 0, min_position_sol |-> 0, max_position_sol |-> 0,
     max_slippage |-> 0]

DecIdle ==
    /\ config = NoConfig
    /\ llm_analysis = InvalidJson
    /\ risk_score = 0
    /\ dpc = "idle"
    /\ made = NoResult

(* the call make_decision(.., llm_analysis, risk_score, ..) returns *)
MakeDecision ==
    /\ dpc = "input"
    /\ made' = make_decision(config, llm_analysis, risk_score)
    /\ dpc' = "returned"
    /\ UNCHANGED <<config, llm_analysis, risk_score>>
    /\ UNCHANGED <<execVars, pipeVars, auxVars>>

----------------------------------------------------------------------------
(* TradingPipeline (strategy/pipeline.rs) run by the periodic driver
   (examples/autonomous_trader.rs).  execute_trade is taken by its outcome:
   a market or limit order returns Ok or Err, a DCA order always returns Ok
   (ExecutionEngine above). *)

TrendingLists == {<<>>, <<"T1">>, <<"T1", "T2">>}
Addrs == {"A", "B"}
PortfolioValues == {4, 100}
PriceOpts == {NoNum, Some(8), Some(10), Some(12)}

(* RiskManager::new: max_position_per_token: 0.2 *)
max_position_per_token == Rat(2, 10)

(* meets_basic_criteria: the thresholds; concentration in tenths *)
min_liquidity_usd == 100000
min_volume_usd == 50000
max_holder_concentration == 4

(* the TokenAnalysis fields process_token reads *)
TokenDatas ==
    [liquidity_usd : {50000, 100000}, volume_24h : {40000, 50000},
     is_verified : BOOLEAN, holder_concentration : {4, 5},
     price_history_len : {0, 30}]

(* the verdicts the oracle answers with while the pipeline runs *)
OracleVerdicts ==
    {InvalidJson} \cup
    [valid : {TRUE},
     confidence : {NoNum, Some(7), Some(10)},
     momentum : {NoStr, Some("strong_buy"), Some("strong_sell")},
     liquidity_score : {Some(10)},
     smart_money_flow : {Some("inflow"), Some("outflow")},
     execution_strategy :
         {st \in Strategies :
             st.entry_type \in {NoStr, Some("limit")} \/ st.num_entries.some}]

(* PortfolioPosition as monitor_positions reads it: quantity in tenths,
   size_percentage in tenths *)
Level(p, s, t) == [price |-> p, size_percentage |-> s, triggered |-> t]
NoLevels == [some |-> FALSE, v |-> <<>>]
PositionShapes ==
    { [quantity |-> 100, stop_loss |-> Some(8), take_profit_levels |-> NoLevels],
      [quantity |-> 100, stop_loss |-> NoNum,
       take_profit_levels |-> Some(<<Level(12, 5, FALSE)>>)],
      [quantity |-> 100, stop_loss |-> Some(8),
       take_profit_levels |-> Some(<<Level(10, 5, FALSE), Level(12, 3, FALSE)>>)],
      [quantity |-> 100, stop_loss |-> NoNum,
       take_profit_levels |-> Some(<<Level(10, 5, TRUE)>>)] }
Portfolios ==
    UNION {[S -> PositionShapes] : S \in {{}, {"A"}, {"A", "B"}}}

(* what market_data.analyze_token(address) returns: Err, or a TokenAnalysis
   of which monitor_positions reads metadata.price_usd *)
AnalysisErr == [tag |-> "Err"]
TokenAnalyses == {AnalysisErr} \cup [tag : {"Ok"}, price_usd : PriceOpts]
NoAnalyses == [a \in {} |-> AnalysisErr]
NoPortfolio == [a \in {} |-> 0]
NoRouted == [src |-> "none"]
NoSells == [a \in Addrs |-> 0]
NoLocals == [some |-> FALSE]
NoExec == [i \in 1..2 |-> 0]
NoLevelSells == [a \in Addrs |-> [l \in 1..MaxLevels |-> 0]]

(* get_portfolio_positions: the positions of the portfolio map, in the
   order the map yields them *)
get_portfolio_positions(pf) ==
    {s \in [1..Cardinality(DOMAIN pf) -> DOMAIN pf] :
        \A i, j \in DOMAIN s : s[i] = s[j] => i = j}

(* get_position(token_address) *)
get_position(pf, addr) == pf[addr]

(* validate_position_size(size_in_sol, current_portfolio_value) *)
validate_position_size(cfg, size_in_sol, current_portfolio_value) ==
    IF \/ RLt(size_in_sol, RInt(cfg.min_position_sol))
       \/ RLt(RInt(cfg.max_position_sol), size_in_sol)
    THEN FALSE
    ELSE LET position_ratio == RDiv(size_in_sol, RInt(current_portfolio_value))
         IN  IF RLt(max_position_per_token, position_ratio) THEN FALSE
             ELSE TRUE

(* meets_basic_criteria(token_data) *)
meets_basic_criteria(td) ==
    IF td.liquidity_usd < min_liquidity_usd THEN FALSE
    ELSE IF td.volume_24h < min_volume_usd THEN FALSE
    ELSE IF ~td.is_verified THEN FALSE
    ELSE IF td.holder_concentration > max_holder_concentration THEN FALSE
    ELSE TRUE

(* the TradingDecision analyze_opportunity returned, as execute_trade gets it *)
OpportunityDecision(token, m) ==
    [src |-> "process_token", token_address |-> token, action |-> m.action,
     size_in_sol |-> m.size_in_sol, confidence |-> m.confidence,
     reasoning |-> "llm", risk_score |-> m.risk_score,
     entry_type |-> m.execution_params.entry_type,
     max_slippage |-> m.execution_params.max_slippage,
     dca_config |-> m.execution_params.dca_config]

(* execute_exit: let decision = TradingDecision { .. } *)
ExitDecision(addr, position) ==
    [src |-> "stop_loss", token_address |-> addr, action |-> "Sell",
     size_in_sol |-> RInt(position.quantity), confidence |-> 10,
     reasoning |-> "Stop loss triggered", risk_score |-> 0,
     entry_type |-> "market", max_slippage |-> max_slippage,
     dca_config |-> NoDca]

(* execute_partial_exit: let exit_size, let decision *)
PartialExitDecision(addr, position, level) ==
    [src |-> "take_profit", token_address |-> addr, action |-> "Sell",
     size_in_sol |-> Rat(position.quantity * level.size_percentage, 10),
     confidence |-> 10, reasoning |-> "Take profit triggered",
     risk_score |-> 0, entry_type |-> "market",
     max_slippage |-> max_slippage, dca_config |-> NoDca]

(* what execute_trade(decision) can return *)
ExecuteTradeOutcomes(d) ==
    IF ExecutionKind(d) = "dca" THEN {"Ok"} ELSE {"Ok", "Err"}

(* monitor_positions: the levels with current_price >= level.price &&
   !level.triggered, in the order of the for loop *)
TriggeredLevels(position, current_price) ==
    IF ~position.take_profit_levels.some THEN <<>>
    ELSE LET lv == position.take_profit_levels.v
         IN  SelectSeq([i \in 1..Len(lv) |-> i],
                       LAMBDA i : /\ current_price >= lv[i].price
                                  /\ ~lv[i].triggered)

(* monitor_positions: stop_loss is Some and price_usd.unwrap_or_default()
   is at or below it *)
StopLossHit(position, td) ==
    /\ position.stop_loss.some
    /\ UnwrapOr(td.price_usd, 0) <= position.stop_loss.v

PipeIdle ==
    /\ driver = "idle"
    /\ exit_at = "none"
    /\ cycle = 0
    /\ trending = <<>>
    /\ tok_i = 0
    /\ ppc = "idle"
    /\ portfolio = NoPortfolio
    /\ portfolio_value = 0
    /\ positions = <<>>
    /\ mon_i = 0
    /\ token_data = NoAnalyses
    /\ routed = NoRouted
    /\ sl_sells = NoSells
    /\ tp_cycle = NoLevelSells
    /\ tp_sells = NoLevelSells
    /\ pt_locals = NoLocals
    /\ n_exec = NoExec

histVars == <<sl_sells, tp_cycle, tp_sells>>
gateVars == <<pt_locals, n_exec>>
monVars == <<positions, mon_i, token_data>>
envVars == <<cycle, portfolio, portfolio_value>>

(* main: an Err reaching a `?` of the loop returns from main *)
MainReturns(at) ==
    /\ driver' = "exited"
    /\ exit_at' = at

(* process_token returned Ok(..): the for loop takes the next token *)
NextToken ==
    /\ tok_i' = tok_i + 1
    /\ ppc' = "start"
    /\ UNCHANGED <<driver, exit_at>>

(* main: let trending_tokens = market_data.get_trending_tokens(10).await? *)
FetchTrending ==
    /\ driver = "fetch"
    /\ \/ /\ MainReturns("get_trending_tokens")
          /\ UNCHANGED <<trending, tok_i, ppc>>
       \/ /\ \E l \in TrendingLists : trending' = l
          /\ tok_i' = 1
          /\ ppc' = "start"
          /\ driver' = "tokens"
          /\ UNCHANGED exit_at
    /\ UNCHANGED <<envVars, monVars, histVars, routed, gateVars>>
    /\ UNCHANGED <<execVars, decVars, auxVars>>

(* process_token, steps 1 to 3: analyze_market_data(..)?, the basic
   criteria, analyze_technical_indicators(..)? (TechnicalAnalyzer::analyze
   unwraps the last EMA value and panics on an empty price history), and
   assess_risk with the risk_score > 0.7 skip *)
AnalyzeToken ==
    /\ driver = "tokens"
    /\ tok_i <= Len(trending)
    /\ ppc = "start"
    /\ \/ /\ MainReturns("analyze_market_data")
          /\ UNCHANGED <<tok_i, ppc, pt_locals>>
       \/ \E td \in TokenDatas, risk \in RiskScores :
            IF ~meets_basic_criteria(td) THEN NextToken /\ UNCHANGED pt_locals
            ELSE IF td.price_history_len = 0
            THEN MainReturns("panic") /\ UNCHANGED <<tok_i, ppc, pt_locals>>
            ELSE IF risk > 7 THEN NextToken /\ UNCHANGED pt_locals
            ELSE /\ ppc' = "opportunity"
                 /\ pt_locals' = [some |-> TRUE, token_data |-> td,
                                  risk_score |-> risk]
                 /\ UNCHANGED <<driver, exit_at, tok_i>>
    /\ UNCHANGED <<trending, envVars, monVars, histVars, routed, n_exec>>
    /\ UNCHANGED <<execVars, decVars, auxVars>>

(* runs a trade of any confidence *)
AnyConfidence(confidence) == TRUE

(* process_token: _ if decision.confidence >= 0.8 *)
HighConfidence(confidence) == confidence >= 8

(* process_token, steps 4 and 5: strategy.analyze_opportunity(..)? and the
   match on decision.action that hands the decision to execute_trade *)
AnalyzeOpportunity ==
    /\ driver = "tokens"
    /\ ppc = "opportunity"
    /\ \/ /\ MainReturns("analyze_opportunity")     \* agent.prompt(..)?
          /\ pt_locals' = NoLocals
          /\ UNCHANGED <<tok_i, ppc, routed, n_exec>>
       \/ \E a \in OracleVerdicts, risk \in RiskScores :
            LET m == make_decision(config, a, risk)
            IN  IF m.tag = "Err"
                THEN /\ MainReturns("analyze_opportunity")
                     /\ pt_locals' = NoLocals
                     /\ UNCHANGED <<tok_i, ppc, routed, n_exec>>
                ELSE IF m.action = "Hold"
                THEN /\ NextToken
                     /\ pt_locals' = NoLocals
                     /\ UNCHANGED <<routed, n_exec>>
                ELSE IF HighConfidence(m.confidence)
                THEN /\ routed' = OpportunityDecision(trending[tok_i], m)
                     /\ ppc' = "execute"
                     /\ n_exec' = [n_exec EXCEPT ![tok_i] = @ + 1]
                     /\ UNCHANGED <<driver, exit_at, tok_i, pt_locals>>
                ELSE /\ NextToken
                     /\ pt_locals' = NoLocals
                     /\ UNCHANGED <<routed, n_exec>>
    /\ UNCHANGED <<trending, envVars, monVars, histVars>>
    /\ UNCHANGED <<execVars, decVars, auxVars>>

(* process_token: execution_engine.execute_trade(&decision).await? returns;
   main records the trade and analyze_strategy_performance returns Ok *)
ExecuteTradeReturns ==
    /\ driver = "tokens"
    /\ ppc = "execute"
    /\ \E out \in ExecuteTradeOutcomes(routed) :
         IF out = "Err"
         THEN /\ MainReturns("execute_trade")
              /\ UNCHANGED <<tok_i, ppc, routed>>
         ELSE /\ NextToken
              /\ routed' = NoRouted
    /\ pt_locals' = NoLocals
    /\ UNCHANGED <<trending, envVars, monVars, histVars, n_exec>>
    /\ UNCHANGED <<execVars, decVars, auxVars>>

(* main: the for loop over trending_tokens is over;
   monitor_positions: let positions = strategy.get_portfolio_positions() *)
BeginMonitor ==
    /\ driver = "tokens"
    /\ tok_i > Len(trending)
    /\ driver' = "monitor"
    /\ positions' \in get_portfolio_positions(portfolio)
    /\ mon_i' = 1
    /\ token_data' \in [DOMAIN portfolio -> TokenAnalyses]
    /\ n_exec' = NoExec
    /\ UNCHANGED <<exit_at, trending, tok_i, ppc, envVars, histVars, routed,
                   pt_locals>>
    /\ UNCHANGED <<execVars, decVars, auxVars>>

(* monitor_positions: one iteration of for position in positions *)
MonitorPosition ==
    /\ driver = "monitor"
    /\ mon_i <= Len(positions)
    /\ LET addr == positions[mon_i]
           position == portfolio[addr]
           td == token_data[addr]
           current_price == UnwrapOr(td.price_usd, 0)
           trig == TriggeredLevels(position, current_price)
       IN  \/ /\ td.tag = "Err"                     \* analyze_token(..)?
              /\ MainReturns("monitor_positions")
              /\ UNCHANGED <<mon_i, routed, histVars>>
           \/ /\ td.tag = "Ok"
              /\ StopLossHit(position, td)
              /\ LET d == ExitDecision(addr, get_position(portfolio, addr))
                 IN  /\ routed' = d
                     /\ \E out \in ExecuteTradeOutcomes(d) :
                          IF out = "Err"
                          THEN /\ MainReturns("monitor_positions")
                               /\ UNCHANGED mon_i
                          ELSE /\ mon_i' = mon_i + 1        \* continue
                               /\ UNCHANGED <<driver, exit_at>>
              /\ sl_sells' = [sl_sells EXCEPT ![addr] = @ + 1]
              /\ UNCHANGED <<tp_cycle, tp_sells>>
           \/ /\ td.tag = "Ok"
              /\ ~StopLossHit(position, td)
              \* the k-th partial exit fails (k = 0: none does)
              /\ \E k \in 0..Len(trig) :
                   LET n == IF k = 0 THEN Len(trig) ELSE k
                       sold(l) == IF \E j \in 1..n : trig[j] = l THEN 1 ELSE 0
                   IN  /\ tp_cycle' = [tp_cycle EXCEPT ![addr] =
                               [l \in 1..MaxLevels |-> @[l] + sold(l)]]
                       /\ tp_sells' = [tp_sells EXCEPT ![addr] =
                               [l \in 1..MaxLevels |-> @[l] + sold(l)]]
                       /\ routed' =
                            IF n = 0 THEN routed
                            ELSE PartialExitDecision(addr, position,
                                   position.take_profit_levels.v[trig[n]])
                       /\ IF k > 0
                          THEN /\ MainReturns("monitor_positions")
                               /\ UNCHANGED mon_i
                          ELSE /\ mon_i' = mon_i + 1
                               /\ UNCHANGED <<driver, exit_at>>
              /\ UNCHANGED sl_sells
    /\ UNCHANGED <<trending, tok_i, ppc, envVars, positions, token_data,
                   gateVars>>
    /\ UNCHANGED <<execVars, decVars, auxVars>>

(* monitor_positions returns Ok(()) *)
MonitorDone ==
    /\ driver = "monitor"
    /\ mon_i > Len(positions)
    /\ driver' = "sleep"
    /\ UNCHANGED <<exit_at, trending, tok_i, ppc, envVars, monVars, histVars,
                   routed, gateVars>>
    /\ UNCHANGED <<execVars, decVars, auxVars>>

(* main: sleep(Duration::from_secs(60)).await, then the next iteration *)
Sleep ==
    /\ driver = "sleep"
    /\ cycle < MaxCycles
    /\ cycle' = cycle + 1
    /\ driver' = "fetch"
    /\ trending' = <<>>
    /\ tok_i' = 0
    /\ ppc' = "idle"
    /\ positions' = <<>>
    /\ mon_i' = 0
    /\ token_data' = NoAnalyses
    /\ routed' = NoRouted
    /\ sl_sells' = NoSells
    /\ tp_cycle' = NoLevelSells
    /\ UNCHANGED <<exit_at, portfolio, portfolio_value, tp_sells, gateVars>>
    /\ UNCHANGED <<execVars, decVars, auxVars>>

----------------------------------------------------------------------------
(* RiskManager: strategy/risk.rs.  Quantities are exact rationals; a
   division by zero gives what f64 gives (NaN, +inf, -inf), and min / max
   return the other operand when one is NaN, as f64::min / f64::max do. *)

NaN == [k |-> "nan"]
PosInf == [k |-> "inf"]
NegInf == [k |-> "-inf"]
Fin(r) == [k |-> "fin", v |-> r]

RMin(a, b) == IF RLt(b, a) THEN b ELSE a
RMax(a, b) == IF RLt(a, b) THEN b ELSE a

(* a / b for finite a and b *)
FDiv(a, b) ==
    IF b.n # 0 THEN Fin(RDiv(a, b))
    ELSE IF a.n = 0 THEN NaN
    ELSE IF a.n > 0 THEN PosInf ELSE NegInf

(* 1.0 - x *)
FOneMinus(x) ==
    CASE x.k = "fin" -> Fin(RAdd(RInt(1), RMul(RInt(-1), x.v)))
      [] x.k = "inf" -> NegInf
      [] x.k = "-inf" -> PosInf
      [] OTHER -> NaN

(* r * x for finite r *)
FMul(r, x) ==
    CASE x.k = "fin" -> Fin(RMul(r, x.v))
      [] x.k = "nan" -> NaN
      [] r.n = 0 -> NaN
      [] (r.n > 0) = (x.k = "inf") -> PosInf
      [] OTHER -> NegInf

(* x.min(c) and x.max(c) for finite c *)
FMin(x, c) ==
    CASE x.k = "fin" -> Fin(RMin(x.v, c))
      [] x.k = "-inf" -> NegInf
      [] OTHER -> Fin(c)
FMax(x, c) ==
    CASE x.k = "fin" -> Fin(RMax(x.v, c))
      [] x.k = "inf" -> PosInf
      [] OTHER -> Fin(c)

(* a >= b on f64: false when either is NaN *)
FGe(a, b) ==
    CASE a.k = "nan" \/ b.k = "nan" -> FALSE
      [] a.k = "inf" \/ b.k = "-inf" -> TRUE
      [] a.k = "-inf" \/ b.k = "inf" -> FALSE
      [] OTHER -> RLe(b.v, a.v)

VolatilityScores == {Rat(-5, 10), RInt(0), Rat(5, 10), RInt(1), RInt(2)}
TrendStrengths == {RInt(0), Rat(5, 10), RInt(5)}
LiquidityScores ==
    {Rat(-2, 10), Rat(2, 10), Rat(3, 10), Rat(5, 10), RInt(1), Rat(15, 10)}
MarketTrends ==
    {"strong_uptrend", "uptrend", "sideways", "downtrend", "strong_downtrend",
     "unknown"}
SectorPerformances == {RInt(-1), RInt(0), RInt(1), RInt(3)}
RiskPortfolioValues == {0, 100}
ExposureAmounts == {50, 150}
RiskLevels == {Rat(k, 10) : k \in 0..10}

NoAssessment == [tag |-> "none"]

(* calculate_volatility_risk(signals) *)
calculate_volatility_risk(volatility_score, trend_strength) ==
    LET adjusted_risk ==
            RMul(volatility_score,
                 RAdd(RInt(1), RMul(RInt(-1), RMul(trend_strength, Rat(3, 10)))))
    IN  RMax(RMin(adjusted_risk, RInt(1)), RInt(0))

(* the else branch without its clamp *)
calculate_liquidity_risk_unclamped(liquidity_score) ==
    IF RLt(liquidity_score, Rat(3, 10)) THEN RInt(1)
    ELSE RMul(RAdd(RInt(1), RMul(RInt(-1), liquidity_score)), Rat(15, 10))

(* calculate_liquidity_risk(token, context) *)
calculate_liquidity_risk(liquidity_score) ==
    IF RLt(liquidity_score, Rat(3, 10)) THEN RInt(1)
    ELSE RMax(RMin(RMul(RAdd(RInt(1), RMul(RInt(-1), liquidity_score)),
                        Rat(15, 10)),
                   RInt(1)),
              RInt(0))

(* calculate_market_risk(context) *)
calculate_market_risk(market_trend, sector_performance) ==
    LET base_risk ==
            CASE market_trend = "strong_uptrend" -> Rat(2, 10)
              [] market_trend = "uptrend" -> Rat(3, 10)
              [] market_trend = "sideways" -> Rat(5, 10)
              [] market_trend = "downtrend" -> Rat(7, 10)
              [] market_trend = "strong_downtrend" -> Rat(8, 10)
              [] OTHER -> Rat(5, 10)
        sector_adjustment ==
            RMul(RAdd(RInt(1), RMul(RInt(-1), sector_performance)), Rat(2, 10))
    IN  RMax(RMin(RAdd(base_risk, sector_adjustment), RInt(1)), RInt(0))

(* calculate_concentration_risk(token_address) *)
calculate_concentration_risk(token_address) ==
    LET current_exposure == position_limits[token_address]
        max_concentration == Rat(2, 10)
    IN  FMax(FMin(FDiv(RInt(current_exposure),
                       RMul(RInt(rm_portfolio_value), max_concentration)),
                  RInt(1)),
             RInt(0)).v

(* grows with the risk score *)
calculate_max_position_size_rising(risk) ==
    FMul(RMul(RMul(RInt(rm_portfolio_value), Rat(1, 10)), risk),
         FOneMinus(market_exposure))

(* calculate_max_position_size(risk_score) *)
calculate_max_position_size(risk) ==
    LET base_size == RMul(RInt(rm_portfolio_value), Rat(1, 10))
        risk_adjustment == RAdd(RInt(1), RMul(RInt(-1), risk))
    IN  FMul(RMul(base_size, risk_adjustment), FOneMinus(market_exposure))

(* weighs the four components equally *)
OverallRiskEqualWeights(v, l, m, c) ==
    RMul(RAdd(RAdd(RAdd(v, l), m), c), Rat(1, 4))

(* assess_risk: let risk_score = ... *)
OverallRisk(v, l, m, c) ==
    RAdd(RAdd(RAdd(RMul(v, Rat(3, 10)), RMul(l, Rat(3, 10))),
              RMul(m, Rat(2, 10))),
         RMul(c, Rat(2, 10)))

(* assess_risk(token, technical, market): the four components (locals of
   the function) and the fields of the RiskAssessment that depend on them *)
assess_risk(token_address, vs, ts, ls, mt, sp) ==
    LET volatility_risk == calculate_volatility_risk(vs, ts)
        liquidity_risk == calculate_liquidity_risk(ls)
        market_risk == calculate_market_risk(mt, sp)
        concentration_risk == calculate_concentration_risk(token_address)
        score == OverallRisk(volatility_risk, liquidity_risk, market_risk,
                             concentration_risk)
    IN  [tag |-> "Ok", token_address |-> token_address,
         volatility_score |-> vs, trend_strength |-> ts,
         liquidity_score |-> ls, market_trend |-> mt,
         sector_performance |-> sp,
         volatility_risk |-> volatility_risk,
         liquidity_risk |-> liquidity_risk,
         market_risk |-> market_risk,
         concentration_risk |-> concentration_risk,
         risk_score |-> score,
         max_position_size |-> calculate_max_position_size(score)]

(* recalculate_market_exposure, for the limits pl *)
recalculate_market_exposure(pl) ==
    LET total == pl["A"] + pl["B"]
    IN  FDiv(RInt(total), RInt(rm_portfolio_value))

RiskIdle ==
    /\ rm_portfolio_value = 0
    /\ position_limits = [a \in Addrs |-> 0]
    /\ market_exposure = Fin(RInt(0))
    /\ n_updates = 0
    /\ rpc = "idle"
    /\ assessment = NoAssessment


(* update_portfolio_exposure(token_address, amount) *)
UpdatePortfolioExposure ==
    /\ rpc = "ready"
    /\ n_updates < MaxUpdates
    /\ \E a \in Addrs, amount \in ExposureAmounts :
         LET pl == [position_limits EXCEPT ![a] = @ + amount]
         IN  /\ position_limits' = pl
             /\ market_exposure' = recalculate_market_exposure(pl)
    /\ n_updates' = n_updates + 1
    /\ UNCHANGED <<rm_portfolio_value, rpc, assessment>>
    /\ UNCHANGED notRisk

(* assess_risk(token, technical, market) returns *)
AssessRisk ==
    /\ rpc = "ready"
    /\ \E a \in Addrs, vs \in VolatilityScores, ts \in TrendStrengths,
          ls \in LiquidityScores, mt \in MarketTrends,
          sp \in SectorPerformances :
         assessment' = assess_risk(a, vs, ts, ls, mt, sp)
    /\ rpc' = "assessed"
    /\ UNCHANGED <<rm_portfolio_value, position_limits, market_exposure,
                   n_updates>>
    /\ UNCHANGED notRisk

----------------------------------------------------------------------------
(* PerformanceAnalyzer: strategy/analytics.rs.  Amounts in tenths.  The
   Sharpe ratio (a square root) and the per-asset table are left out: no
   other field is computed from them. *)

RECURSIVE SumSeq(_)
SumSeq(q) == IF q = <<>> THEN 0 ELSE Head(q) + SumSeq(Tail(q))

ProfitLosses == {NoNum, Some(10), Some(-5), Some(20), Some(0)}
InitialCapitals == {100, 10}

(* PerformanceAnalyzer::new: metrics *)
NoMetrics ==
    [total_trades |-> 0, winning_trades |-> 0, losing_trades |-> 0,
     total_profit_loss |-> 0, win_rate |-> RInt(0),
     average_return |-> RInt(0), max_drawdown |-> RInt(0),
     current_drawdown |-> RInt(0), risk_adjusted_return |-> RInt(0)]

(* counts a break-even trade as a win *)
IsWinOrEven(pl) == pl >= 0

(* record_trade: if pl > 0.0 *)
IsWin(pl) == pl > 0

(* keeps the old peak *)
NewPeakStale(peak, current) == peak

(* record_trade: self.peak_capital.max(self.current_capital) *)
NewPeak(peak, current) == IF current > peak THEN current ELSE peak

(* update_metrics: the for loop over self.trades that computes max_drawdown,
   from trade i on *)
RECURSIVE DrawdownLoop(_, _, _, _, _)
DrawdownLoop(tr, i, peak, max_drawdown, current_value) ==
    IF i > Len(tr) THEN max_drawdown
    ELSE IF ~tr[i].some
    THEN DrawdownLoop(tr, i + 1, peak, max_drawdown, current_value)
    ELSE LET value == current_value + tr[i].v
             pk == IF value > peak THEN value ELSE peak
             drawdown == Rat(pk - value, pk)
         IN  DrawdownLoop(tr, i + 1, pk, RMax(max_drawdown, drawdown), value)

(* update_metrics *)
update_metrics(m, tr, init, current, peak) ==
    IF m.total_trades = 0 THEN m
    ELSE LET max_drawdown == DrawdownLoop(tr, 1, init, RInt(0), init)
         IN  [m EXCEPT
                !.win_rate = Rat(m.winning_trades, m.total_trades),
                !.average_return = Rat(m.total_profit_loss, m.total_trades),
                !.max_drawdown = max_drawdown,
                !.current_drawdown = Rat(peak - current, peak),
                !.risk_adjusted_return =
                    IF RLt(RInt(0), max_drawdown)
                    THEN RDiv(RInt(m.total_profit_loss), max_drawdown)
                    ELSE RInt(m.total_profit_loss)]

PerfIdle ==
    /\ trades = <<>>
    /\ metrics = NoMetrics
    /\ initial_capital = 0
    /\ current_capital = 0
    /\ peak_capital = 0

(* record_trade(trade), with the update_metrics call it ends with *)
RecordTrade ==
    /\ initial_capital > 0
    /\ Len(trades) < MaxTrades
    /\ \E profit_loss \in ProfitLosses :
         LET pl == profit_loss.v
             cur == IF profit_loss.some THEN current_capital + pl
                    ELSE current_capital
             pk == IF profit_loss.some THEN NewPeak(peak_capital, cur)
                   ELSE peak_capital
             m == IF profit_loss.some
                  THEN [metrics EXCEPT
                          !.total_trades = @ + 1,
                          !.winning_trades = IF IsWin(pl) THEN @ + 1 ELSE @,
                          !.losing_trades = IF IsWin(pl) THEN @ ELSE @ + 1,
                          !.total_profit_loss = @ + pl]
                  ELSE metrics
             tr == Append(trades, profit_loss)
         IN  /\ current_capital' = cur
             /\ peak_capital' = pk
             /\ trades' = tr
             /\ metrics' = update_metrics(m, tr, initial_capital, cur, pk)
    /\ UNCHANGED initial_capital
    /\ UNCHANGED notPerf

----------------------------------------------------------------------------
(* TechnicalAnalyzer: strategy/technical.rs.  Prices are integers.  The RSI,
   MACD and EMA values come from the ta crate and do not reach the support
   and resistance lists; of analyze_trend only the unwrap of the last EMA
   value is kept. *)

(* find_support_resistance: let window_size = 20 *)
window_size == 20

(* find_support_resistance: let threshold = 0.02, in percent *)
threshold == 2

(* test_technical_analysis: let prices = vec![10.0, 11.0, ..], in tenths *)
TestPrices == <<100, 110, 105, 115, 120, 118, 119, 121, 123, 122>>

(* flat price histories with at most one dip or spike, and the test's *)
PriceHistories ==
    {TestPrices} \cup
    {[i \in 1..len |-> 100] : len \in 0..MaxPrices} \cup
    {[i \in 1..len |-> IF i = k THEN v ELSE 100] :
        len \in 1..MaxPrices, k \in 1..MaxPrices, v \in {90, 110}}

Builds == {"debug", "release"}

NoTechAnalysis == [tag |-> "none"]
TechPanic(at) == [tag |-> "Panic", at |-> at]

MinOf(S) == CHOOSE x \in S : \A y \in S : x <= y
MaxOf(S) == CHOOSE x \in S : \A y \in S : y <= x

Contains(q, x) == \E j \in 1..Len(q) : q[j] = x

(* Vec::sort_by(|a, b| a.partial_cmp(b).unwrap()) *)
RECURSIVE InsertSorted(_, _)
InsertSorted(q, x) ==
    IF q = <<>> THEN <<x>>
    ELSE IF RLt(x, Head(q)) THEN <<x>> \o q
    ELSE <<Head(q)>> \o InsertSorted(Tail(q), x)

RECURSIVE SortLevels(_)
SortLevels(q) ==
    IF q = <<>> THEN <<>> ELSE InsertSorted(SortLevels(Tail(q)), Head(q))

(* find_support_resistance: the for loop from index i (0-based) up to
   end - 1, on the lists support and resistance *)
RECURSIVE LevelLoop(_, _, _, _, _)
LevelLoop(ph, i, end, support, resistance) ==
    IF i >= end THEN [support |-> support, resistance |-> resistance]
    ELSE LET current == ph[i + 1]
             left == {ph[j + 1] : j \in (i - window_size)..(i - 1)}
             right == {ph[j + 1] : j \in (i + 1)..(i + window_size - 1)}
             sp == Rat(current * (100 - threshold), 100)
             rp == Rat(current * (100 + threshold), 100)
             s2 == IF /\ current < MinOf(left)
                      /\ current < MinOf(right)
                      /\ ~Contains(support, sp)
                   THEN Append(support, sp) ELSE support
             r2 == IF /\ current > MaxOf(left)
                      /\ current > MaxOf(right)
                      /\ ~Contains(resistance, rp)
                   THEN Append(resistance, rp) ELSE resistance
         IN  LevelLoop(ph, i + 1, end, s2, r2)

(* find_support_resistance, for a build: price_history.len() - window_size
   is a usize subtraction, which panics in a debug build and wraps in a
   release build, where self.price_history[i] at i = window_size is then out
   of bounds *)
find_support_resistance(ph, build) ==
    IF Len(ph) < window_size
    THEN IF build = "debug" THEN TechPanic("subtract with overflow")
         ELSE TechPanic("index out of bounds")
    ELSE LET l == LevelLoop(ph, window_size, Len(ph) - window_size,
                            <<>>, <<>>)
         IN  [tag |-> "Ok", support_levels |-> SortLevels(l.support),
              resistance_levels |-> SortLevels(l.resistance)]

(* analyze_trend: fast_values.last().unwrap() *)
analyze_trend(ph) ==
    IF Len(ph) = 0 THEN TechPanic("unwrap on None") ELSE [tag |-> "Ok"]

(* calculate_volatility: whether the standard deviation of the returns
   (w[1] - w[0]) / w[0] it returns is above 0.0, that is whether two of the
   returns differ *)
VolatilityPositive(ph) ==
    /\ Len(ph) >= 2
    /\ \E i, j \in 1..(Len(ph) - 1) :
          Rat(ph[i + 1] - ph[i], ph[i]) # Rat(ph[j + 1] - ph[j], ph[j])

(* analyze(prices), for a build *)
analyze(ph, build) ==
    IF analyze_trend(ph).tag = "Panic" THEN analyze_trend(ph)
    ELSE LET levels == find_support_resistance(ph, build)
         IN  IF levels.tag = "Panic" THEN levels
             ELSE [tag |-> "Ok", support_levels |-> levels.support_levels,
                   resistance_levels |-> levels.resistance_levels,
                   volatility_positive |-> VolatilityPositive(ph)]

TechIdle ==
    /\ price_history = <<>>
    /\ tpc = "idle"
    /\ analysis = NoTechAnalysis

(* analyze(prices) *)
Analyze ==
    /\ tpc = "ready"
    /\ \E build \in Builds : analysis' = analyze(price_history, build)
    /\ tpc' = "done"
    /\ UNCHANGED price_history
    /\ UNCHANGED notTech

----------------------------------------------------------------------------
(* TradingStrategy.portfolio: strategy/mod.rs update_portfolio and
   record_partial_sell.  Quantities and prices are integers. *)

BookAddrs == {"A", "B"}
Timestamps == {0, 1}
BuyFills == {[quantity |-> 5, cost_basis_sol |-> 3],
             [quantity |-> 10, cost_basis_sol |-> 6]}
SellFills == {[quantity |-> 5, price_sol |-> 1],
              [quantity |-> 10, price_sol |-> 2]}

(* the EnhancedTokenMetadata handed to update_portfolio *)
TokenOf(addr) == [address |-> addr, symbol |-> "S-" \o addr]

NoBook == [a \in {} |-> 0]
NoCall == [op |-> "none"]

(* update_portfolio: PortfolioPosition { .. } *)
NewPosition(token, quantity, cost_basis_sol, now) ==
    [token |-> token, quantity |-> quantity,
     cost_basis_sol |-> cost_basis_sol, entry_timestamp |-> now,
     partial_sells |-> <<>>, mongodb_id |-> NoStr]

(* record_partial_sell: PartialSell { .. } *)
PartialSell(quantity, price_sol, now) ==
    [quantity |-> quantity, price_sol |-> price_sol, timestamp |-> now,
     tx_signature |-> NoStr]

(* also lowers the cost basis by the proceeds *)
SoldPositionRebased(position, quantity, price_sol, now) ==
    [position EXCEPT
        !.partial_sells = Append(@, PartialSell(quantity, price_sol, now)),
        !.quantity = @ - quantity,
        !.cost_basis_sol = @ - quantity * price_sol]

(* record_partial_sell: position.partial_sells.push(..);
   position.quantity -= quantity *)
SoldPosition(position, quantity, price_sol, now) ==
    [position EXCEPT
        !.partial_sells = Append(@, PartialSell(quantity, price_sol, now)),
        !.quantity = @ - quantity]

(* HashMap::insert *)
MapInsert(m, k, v) ==
    [x \in DOMAIN m \cup {k} |-> IF x = k THEN v ELSE m[x]]

BookIdle ==
    /\ book = NoBook
    /\ clock = 0
    /\ last_call = NoCall
    /\ call_result = "none"

(* update_portfolio(token, quantity, cost_basis_sol) *)
UpdatePortfolio ==
    /\ \E addr \in BookAddrs, fill \in BuyFills,
          now \in {t \in Timestamps : t >= clock} :
         /\ clock' = now
         /\ book' = MapInsert(book, addr,
                       NewPosition(TokenOf(addr), fill.quantity,
                                   fill.cost_basis_sol, now))
         /\ last_call' = [op |-> "update_portfolio", token_address |-> addr,
                          quantity |-> fill.quantity]
         /\ call_result' = "unit"
    /\ UNCHANGED notBook

(* record_partial_sell(token_address, quantity, price_sol) *)
RecordPartialSell ==
    /\ \E addr \in BookAddrs, fill \in SellFills :
         /\ last_call' = [op |-> "record_partial_sell", token_address |-> addr,
                          quantity |-> fill.quantity,
                          price_sol |-> fill.price_sol]
         /\ IF addr \notin DOMAIN book
            THEN /\ call_result' = "Err"        \* Position not found
                 /\ UNCHANGED <<book, clock>>
            ELSE /\ Len(book[addr].partial_sells) < MaxSells
                 /\ \E now \in {t \in Timestamps : t >= clock} :
                      /\ clock' = now
                      /\ book' = [book EXCEPT ![addr] =
                                    SoldPosition(@, fill.quantity,
                                                 fill.price_sol, now)]
                 /\ call_result' = "Ok"
    /\ UNCHANGED notBook

----------------------------------------------------------------------------
(* RiskManager::calculate_stop_loss: strategy/risk.rs.  Prices are integers,
   the volatility score a rational. *)

StopPrices == {NoNum, Some(100)}
StopVolatilities == {RInt(0), Rat(3, 100), Rat(1, 10)}
SupportPrices == {80, 90, 95, 99, 110}

(* the ascending lists find_support_resistance can hand over *)
SupportLists ==
    {q \in UNION {[1..k -> SupportPrices] : k \in 0..3} :
        \A i \in 1..(Len(q) - 1) : q[i] < q[i + 1]}

NoStop == [some |-> FALSE, v |-> RInt(0)]

(* calculate_stop_loss(token, signals) *)
calculate_stop_loss(price_usd, support_levels, volatility_score) ==
    IF support_levels # <<>>
    THEN LET support == support_levels[1]
             current_price == UnwrapOr(price_usd, 0)
             stop_distance == FDiv(RInt(current_price - support),
                                   RInt(current_price))
         IN  \* a NaN or infinite distance fails one of the two comparisons
             IF /\ stop_distance.k = "fin"
                /\ RLt(Rat(2, 100), stop_distance.v)
                /\ RLt(stop_distance.v, Rat(15, 100))
             THEN Some(RInt(support))
             ELSE LET atr == RMul(volatility_score, RInt(current_price))
                  IN  Some(RAdd(RInt(current_price), RMul(RInt(-2), atr)))
    ELSE NoStop

StopIdle ==
    /\ sl_price_usd = NoNum
    /\ sl_support_levels = <<>>
    /\ sl_volatility = RInt(0)
    /\ slpc = "idle"
    /\ stop_loss_price = NoStop

(* assess_risk: let stop_loss_price = self.calculate_stop_loss(token,
   technical) *)
CalculateStopLoss ==
    /\ slpc = "ready"
    /\ stop_loss_price' = calculate_stop_loss(sl_price_usd, sl_support_levels,
                                              sl_volatility)
    /\ slpc' = "done"
    /\ UNCHANGED <<sl_price_usd, sl_support_levels, sl_volatility>>
    /\ UNCHANGED notStop

----------------------------------------------------------------------------
(* The trade announcements: DataSyncService (database/sync.rs) and
   trading_loop (main.rs).  Each call is taken by its outcome. *)

TrendCounts == 0..3

(* how the body of sync_market_data's for loop can end for one entry *)
SyncOutcomes ==
    {"insert_err",     \* insert_one(..).await? fails
     "no_trade",       \* no analysis, no recommendation, low confidence, Hold
     "swap_err",       \* dex.execute_swap returns Err
     "tweet_gen_err",  \* swap Ok, generate_trade_tweet(..).await? fails
     "tweet_post_err", \* swap Ok, tweet generated, post_tweet returns Err
     "posted"}         \* swap Ok, tweet posted

(* how one iteration of trading_loop can end *)
LoopOutcomes ==
    {"get_token_data", "validate_trade", "execute_trade", "post_trade", "ok"}

(* the entries after which sync_market_data returns Err at once *)
SyncReturnsErr(outcome) == outcome \in {"insert_err", "tweet_gen_err"}

SocialIdle ==
    /\ sync_pc = "idle"
    /\ sync_cycle = 0
    /\ trends_left = 0
    /\ sync_last = "none"
    /\ sync_result = "none"
    /\ unprocessed = 0
    /\ tl_pc = "idle"
    /\ tl_iter = 0
    /\ tl_last = "none"
    /\ tl_exit_at = "none"

tlVars == <<tl_pc, tl_iter, tl_last, tl_exit_at>>
syncVars == <<sync_pc, sync_cycle, trends_left, sync_last, sync_result,
              unprocessed>>

(* sync_market_data: let trends = self.data_provider.get_trending_tokens(20)
   .await?; start logs an Err and goes to sleep *)
SyncFetch ==
    /\ sync_pc = "fetch"
    /\ sync_last' = "none"
    /\ unprocessed' = 0
    /\ \/ /\ sync_result' = "Err"
          /\ sync_pc' = "sleep"
          /\ trends_left' = 0
       \/ \E n \in TrendCounts :
            /\ trends_left' = n
            /\ sync_result' = IF n = 0 THEN "Ok" ELSE "none"
            /\ sync_pc' = IF n = 0 THEN "sleep" ELSE "tokens"
    /\ UNCHANGED sync_cycle
    /\ UNCHANGED tlVars
    /\ UNCHANGED notSocial

(* sync_market_data: one iteration of for trend in trends *)
SyncToken ==
    /\ sync_pc = "tokens"
    /\ trends_left > 0
    /\ \E outcome \in SyncOutcomes :
         /\ sync_last' = outcome
         /\ IF SyncReturnsErr(outcome)
            THEN /\ sync_result' = "Err"
                 /\ unprocessed' = trends_left - 1
                 /\ trends_left' = 0
                 /\ sync_pc' = "sleep"
            ELSE /\ trends_left' = trends_left - 1
                 /\ unprocessed' = 0
                 /\ sync_result' = IF trends_left = 1 THEN "Ok" ELSE "none"
                 /\ sync_pc' = IF trends_left = 1 THEN "sleep" ELSE "tokens"
    /\ UNCHANGED sync_cycle
    /\ UNCHANGED tlVars
    /\ UNCHANGED notSocial

(* start: tokio::time::sleep(sync_interval), then the next iteration *)
SyncSleep ==
    /\ sync_pc = "sleep"
    /\ sync_cycle < MaxSyncCycles
    /\ sync_cycle' = sync_cycle + 1
    /\ sync_pc' = "fetch"
    /\ UNCHANGED <<trends_left, sync_last, sync_result, unprocessed>>
    /\ UNCHANGED tlVars
    /\ UNCHANGED notSocial

(* trading_loop: one iteration of the loop, ending in the sleep or in the
   return of the first Err its `?` operators meet *)
TradingLoopIteration ==
    /\ tl_pc = "loop"
    /\ tl_iter < MaxSyncCycles
    /\ \E outcome \in LoopOutcomes :
         /\ tl_last' = outcome
         /\ IF outcome = "ok"
            THEN /\ tl_iter' = tl_iter + 1
                 /\ UNCHANGED <<tl_pc, tl_exit_at>>
            ELSE /\ tl_pc' = "exited"
                 /\ tl_exit_at' = outcome
                 /\ UNCHANGED tl_iter
    /\ UNCHANGED syncVars
    /\ UNCHANGED notSocial

----------------------------------------------------------------------------
(* market_data/mod.rs: AggregatedDataProvider::get_trending_tokens *)

(* test_aggregated_provider: get_aggregated_trends(5) *)
TestLimit == 5

Limits == 0..TestLimit

(* MockProvider::get_trending_tokens: addr0 .. addr{limit-1} *)
TestAddresses == [i \in 1..TestLimit |-> i - 1]

ProviderErr == [tag |-> "Err"]
ProviderOk(addrs) == [tag |-> "Ok", addrs |-> addrs]

(* answers of one provider: an error, or the token addresses of its trends *)
ProviderAnswers ==
    {ProviderErr, ProviderOk(<<>>), ProviderOk(TestAddresses),
     ProviderOk(<<0, 1>>), ProviderOk(<<1, 2>>), ProviderOk(<<3, 3>>),
     ProviderOk(<<5, 0>>)}

ProviderLists ==
    UNION {[1..n -> ProviderAnswers] : n \in 0..MaxProviders}

NoTrends == [tag |-> "none"]

(* for provider in &self.providers { if let Ok(mut trends) = .. {
   all_trends.append(&mut trends) } }: a failed provider adds nothing *)
RECURSIVE CollectTrends(_, _)
CollectTrends(providers, i) ==
    IF i > Len(providers) THEN <<>>
    ELSE LET answer == providers[i]
             rest == CollectTrends(providers, i + 1)
         IN  IF answer.tag = "Ok"
             THEN [k \in 1..Len(answer.addrs) |->
                      [token_address |-> answer.addrs[k], provider |-> i]]
                  \o rest
             ELSE rest

AllValues(all_trends) == {all_trends[i] : i \in DOMAIN all_trends}

(* unique_trends.entry(trend.token_address.clone()).or_insert(trend): the
   values of the map are the first trend of every address *)
unique_trends(all_trends) ==
    {all_trends[i] : i \in {i \in DOMAIN all_trends :
        \A j \in 1..(i - 1) :
            all_trends[j].token_address # all_trends[i].token_address}}

(* into_values().take(limit).collect(): a HashMap yields its values in an
   arbitrary order, so every selection of min(limit, len) values in every
   order is a possible vector *)
RECURSIVE TakeValues(_, _)
TakeValues(values, n) ==
    IF n = 0 \/ values = {} THEN {<<>>}
    ELSE UNION {{<<v>> \o rest : rest \in TakeValues(values \ {v}, n - 1)} :
                v \in values}

get_trending_tokens(providers, limit) ==
    TakeValues(unique_trends(CollectTrends(providers, 1)), limit)

AggIdle ==
    /\ agg_providers = <<>>
    /\ agg_limit = 0
    /\ agg_pc = "idle"
    /\ agg_result = NoTrends

GetTrendingTokens ==
    /\ agg_pc = "ready"
    /\ \E trends \in get_trending_tokens(agg_providers, agg_limit) :
          agg_result' = [tag |-> "Ok", trends |-> trends]
    /\ agg_pc' = "done"
    /\ UNCHANGED <<agg_providers, agg_limit>>
    /\ UNCHANGED notAgg

----------------------------------------------------------------------------
(* market_data/storage.rs: MarketDataStorage.positions under concurrent
   tasks.  The order in which tokio's RwLock serves waiting tasks is left
   open: any task whose request the lock can grant may get it. *)

Tasks == 1..MaxTasks

NoPosition == [some |-> FALSE]
SomePosition(entry, partial_sells) ==
    [some |-> TRUE, entry |-> entry, partial_sells |-> partial_sells]

NoOp == [kind |-> "none"]

(* a task that is not in the middle of a mutation holds no reference into the
   map *)
NoBase == "none"

StorageCalls == {"add_position", "update_position", "get_position"}

Unlocked == [writer |-> 0, readers |-> {}]

AlwaysGranted(lock) == TRUE

(* RwLock::write() is granted when no guard of any kind is held *)
CanWrite(lock) == lock.writer = 0 /\ lock.readers = {}

(* RwLock::read() is granted when no write guard is held *)
CanRead(lock) == lock.writer = 0

(* positions.insert(position.token_address.clone(), position);
   if let Some(position) = positions.get_mut(token_address) {
       position.partial_sells.push(partial_sell) } *)
ApplyWrite(map, op) ==
    IF op.kind = "add_position"
    THEN [map EXCEPT ![op.addr] = SomePosition(op.id, <<>>)]
    ELSE IF map[op.addr].some
         THEN [map EXCEPT ![op.addr].partial_sells = Append(@, op.id)]
         ELSE map

Mutating == {t \in Tasks : task_pc[t] = "mutating"}
WriteGuards == {t \in Tasks : task_pc[t] \in {"locked", "mutating"}}

StoreIdle ==
    /\ store_positions = [a \in Addrs |-> NoPosition]
    /\ positions_lock = Unlocked
    /\ positions_json = [a \in Addrs |-> NoPosition]
    /\ task_pc = <<>>
    /\ task_op = <<>>
    /\ task_base = <<>>
    /\ n_ops = 0
    /\ serial_positions = [a \in Addrs |-> NoPosition]
    /\ partial_seen = FALSE

AuxIdle == RiskIdle /\ PerfIdle /\ TechIdle /\ BookIdle /\ StopIdle /\ SocialIdle /\ AggIdle /\ StoreIdle

storeGhost == <<serial_positions, partial_seen>>

(* a task calls add_position, update_position or get_position *)
StorageCall(t) ==
    /\ task_pc[t] = "idle"
    /\ n_ops < MaxStorageOps
    /\ \E kind \in StorageCalls, addr \in Addrs :
        /\ task_op' = [task_op EXCEPT
               ![t] = [kind |-> kind, addr |-> addr, id |-> n_ops + 1]]
        /\ task_pc' = [task_pc EXCEPT
               ![t] = IF kind = "get_position" THEN "want_read"
                      ELSE "want_write"]
    /\ n_ops' = n_ops + 1
    /\ UNCHANGED <<store_positions, positions_lock, positions_json,
                   task_base, storeGhost>>
    /\ UNCHANGED notStore

(* let mut positions = self.positions.write().await; *)
AcquireWrite(t) ==
    /\ task_pc[t] = "want_write"
    /\ CanWrite(positions_lock)
    /\ positions_lock' = [positions_lock EXCEPT !.writer = t]
    /\ task_pc' = [task_pc EXCEPT ![t] = "locked"]
    /\ UNCHANGED <<store_positions, positions_json, task_op, task_base,
                   n_ops, storeGhost>>
    /\ UNCHANGED notStore

(* update_position finds no position: Ok(()) and the guard is dropped at the
   end of the function, nothing is saved *)
UpdateMissing(t) ==
    /\ task_pc[t] = "locked"
    /\ task_op[t].kind = "update_position"
    /\ ~store_positions[task_op[t].addr].some
    /\ positions_lock' = [positions_lock EXCEPT !.writer = 0]
    /\ task_pc' = [task_pc EXCEPT ![t] = "idle"]
    /\ task_op' = [task_op EXCEPT ![t] = NoOp]
    /\ UNCHANGED <<store_positions, positions_json, task_base, n_ops,
                   storeGhost>>
    /\ UNCHANGED notStore

(* the insert or the push starts: it works on what the map holds now *)
MutateBegin(t) ==
    /\ task_pc[t] = "locked"
    /\ task_op[t].kind = "update_position" =>
           store_positions[task_op[t].addr].some
    /\ task_base' = [task_base EXCEPT ![t] = store_positions]
    /\ task_pc' = [task_pc EXCEPT ![t] = "mutating"]
    /\ UNCHANGED <<store_positions, positions_lock, positions_json, task_op,
                   n_ops, storeGhost>>
    /\ UNCHANGED notStore

(* the insert or the push is finished; drop(positions); *)
MutateEnd(t) ==
    /\ task_pc[t] = "mutating"
    /\ store_positions' = [store_positions EXCEPT ![task_op[t].addr] =
           ApplyWrite(task_base[t], task_op[t])[task_op[t].addr]]
    /\ serial_positions' = ApplyWrite(serial_positions, task_op[t])
    /\ positions_lock' = [positions_lock EXCEPT
           !.writer = IF @ = t THEN 0 ELSE @]
    /\ task_base' = [task_base EXCEPT ![t] = NoBase]
    /\ task_pc' = [task_pc EXCEPT ![t] = "want_save"]
    /\ UNCHANGED <<positions_json, task_op, n_ops, partial_seen>>
    /\ UNCHANGED notStore

(* save_positions: let positions = self.positions.read().await;
   get_position: self.positions.read().await *)
AcquireRead(t) ==
    /\ task_pc[t] \in {"want_save", "want_read"}
    /\ CanRead(positions_lock)
    /\ positions_lock' = [positions_lock EXCEPT !.readers = @ \cup {t}]
    /\ task_pc' = [task_pc EXCEPT
           ![t] = IF task_pc[t] = "want_save" THEN "saving" ELSE "reading"]
    /\ UNCHANGED <<store_positions, positions_json, task_op, task_base,
                   n_ops, storeGhost>>
    /\ UNCHANGED notStore

(* save_positions: to_string_pretty(&*positions)?; fs::write(&path,
   content)?; the read guard is dropped when the function returns, also when
   the write to the file fails *)
SavePositions(t) ==
    /\ task_pc[t] = "saving"
    /\ \E written \in BOOLEAN :
          positions_json' = IF written THEN store_positions
                            ELSE positions_json
    /\ partial_seen' = (partial_seen \/ Mutating # {})
    /\ positions_lock' = [positions_lock EXCEPT !.readers = @ \ {t}]
    /\ task_pc' = [task_pc EXCEPT ![t] = "idle"]
    /\ task_op' = [task_op EXCEPT ![t] = NoOp]
    /\ UNCHANGED <<store_positions, task_base, n_ops, serial_positions>>
    /\ UNCHANGED notStore

(* get_position: .get(token_address).cloned(), then the guard is dropped *)
GetPosition(t) ==
    /\ task_pc[t] = "reading"
    /\ partial_seen' = (partial_seen \/ Mutating # {})
    /\ positions_lock' = [positions_lock EXCEPT !.readers = @ \ {t}]
    /\ task_pc' = [task_pc EXCEPT ![t] = "idle"]
    /\ task_op' = [task_op EXCEPT ![t] = NoOp]
    /\ UNCHANGED <<store_positions, positions_json, task_base, n_ops,
                   serial_positions>>
    /\ UNCHANGED notStore

----------------------------------------------------------------------------
(* Specifications *)

ExecIdle ==
    /\ max_retries = DefaultMaxRetries
    /\ decision = NoDecision
    /\ mode = "none"
    /\ epc = "idle"
    /\ attempts = 0
    /\ quote = NoQuote
    /\ order_size = RInt(0)
    /\ dca_i = 0
    /\ total_executed = RInt(0)
    /\ total_cost = RInt(0)
    /\ result = NoResult
    /\ n_quotes = 0
    /\ n_high = 0
    /\ n_swaps = 0
    /\ n_sleeps = 0
    /\ submitted = {}
    /\ n_orders = 0
    /\ n_ok = 0
    /\ order_sizes = {}
    /\ n_swap_err = 0
    /\ price_sum = RInt(0)

NextExec ==
    \/ SetMaxRetries
    \/ StartMarket
    \/ StartLimit
    \/ LimitQuote
    \/ StartDca
    \/ DcaNextTranche
    \/ RetriesExhausted
    \/ QuoteFails
    \/ QuoteReturns
    \/ SwapSucceeds
    \/ SwapFails

InitExec ==
    ExecIdle /\ max_slippage \in Slippages /\ DecIdle /\ PipeIdle /\ AuxIdle

SpecExec == InitExec /\ [][NextExec]_vars

InitDecision ==
    /\ ExecIdle
    /\ max_slippage = 1
    /\ config \in Configs
    /\ llm_analysis \in LlmAnalyses
    /\ risk_score \in RiskScores
    /\ dpc = "input"
    /\ made = NoResult
    /\ PipeIdle
    /\ AuxIdle

NextDecision ==
    \/ MakeDecision

SpecDecision == InitDecision /\ [][NextDecision]_vars

InitPipeline ==
    /\ ExecIdle
    /\ max_slippage = 1
    /\ config \in Configs
    /\ llm_analysis = InvalidJson
    /\ risk_score = 0
    /\ dpc = "idle"
    /\ made = NoResult
    /\ driver = "fetch"
    /\ exit_at = "none"
    /\ cycle = 1
    /\ trending = <<>>
    /\ tok_i = 0
    /\ ppc = "idle"
    /\ portfolio \in Portfolios
    /\ portfolio_value \in PortfolioValues
    /\ positions = <<>>
    /\ mon_i = 0
    /\ token_data = NoAnalyses
    /\ routed = NoRouted
    /\ sl_sells = NoSells
    /\ tp_cycle = NoLevelSells
    /\ tp_sells = NoLevelSells
    /\ pt_locals = NoLocals
    /\ n_exec = NoExec
    /\ AuxIdle

NextPipeline ==
    \/ FetchTrending
    \/ AnalyzeToken
    \/ AnalyzeOpportunity
    \/ ExecuteTradeReturns
    \/ BeginMonitor
    \/ MonitorPosition
    \/ MonitorDone
    \/ Sleep

SpecPipeline == InitPipeline /\ [][NextPipeline]_vars

(* the same driver started with one position, A, held *)
InitGate ==
    /\ InitPipeline
    /\ DOMAIN portfolio = {"A"}
    /\ portfolio_value = 100

SpecGate == InitGate /\ [][NextPipeline]_vars

InitRisk ==
    /\ ExecIdle
    /\ max_slippage = 1
    /\ DecIdle
    /\ PipeIdle
    /\ rm_portfolio_value \in RiskPortfolioValues
    /\ position_limits = [a \in Addrs |-> 0]
    /\ market_exposure = Fin(RInt(0))
    /\ n_updates = 0
    /\ rpc = "ready"
    /\ assessment = NoAssessment
    /\ PerfIdle
    /\ TechIdle
    /\ BookIdle
    /\ StoreIdle
    /\ AggIdle
    /\ SocialIdle
    /\ StopIdle

NextRisk ==
    \/ UpdatePortfolioExposure
    \/ AssessRisk

SpecRisk == InitRisk /\ [][NextRisk]_vars

InitPerf ==
    /\ ExecIdle
    /\ max_slippage = 1
    /\ DecIdle
    /\ PipeIdle
    /\ RiskIdle
    /\ TechIdle
    /\ BookIdle
    /\ StoreIdle
    /\ AggIdle
    /\ SocialIdle
    /\ StopIdle
    /\ trades = <<>>
    /\ metrics = NoMetrics
    /\ initial_capital \in InitialCapitals
    /\ current_capital = initial_capital
    /\ peak_capital = initial_capital

NextPerf ==
    \/ RecordTrade

SpecPerf == InitPerf /\ [][NextPerf]_vars

InitTech ==
    /\ ExecIdle
    /\ max_slippage = 1
    /\ DecIdle
    /\ PipeIdle
    /\ RiskIdle
    /\ PerfIdle
    /\ BookIdle
    /\ StoreIdle
    /\ AggIdle
    /\ SocialIdle
    /\ StopIdle
    /\ price_history \in PriceHistories
    /\ tpc = "ready"
    /\ analysis = NoTechAnalysis

NextTech ==
    \/ Analyze

SpecTech == InitTech /\ [][NextTech]_vars

InitBook ==
    /\ ExecIdle
    /\ max_slippage = 1
    /\ DecIdle
    /\ PipeIdle
    /\ RiskIdle
    /\ PerfIdle
    /\ TechIdle
    /\ BookIdle
    /\ StoreIdle
    /\ AggIdle
    /\ SocialIdle
    /\ StopIdle

NextBook ==
    \/ UpdatePortfolio
    \/ RecordPartialSell

SpecBook == InitBook /\ [][NextBook]_vars


InitStop ==
    /\ ExecIdle
    /\ max_slippage = 1
    /\ DecIdle
    /\ PipeIdle
    /\ RiskIdle
    /\ PerfIdle
    /\ TechIdle
    /\ BookIdle
    /\ StoreIdle
    /\ AggIdle
    /\ SocialIdle
    /\ sl_price_usd \in StopPrices
    /\ sl_support_levels \in SupportLists
    /\ sl_volatility \in StopVolatilities
    /\ slpc = "ready"
    /\ stop_loss_price = NoStop

NextStop ==
    \/ CalculateStopLoss

SpecStop == InitStop /\ [][NextStop]_vars


InitSocial ==
    /\ ExecIdle
    /\ max_slippage = 1
    /\ DecIdle
    /\ PipeIdle
    /\ RiskIdle
    /\ PerfIdle
    /\ TechIdle
    /\ BookIdle
    /\ StoreIdle
    /\ AggIdle
    /\ StopIdle
    /\ sync_pc = "fetch"
    /\ sync_cycle = 1
    /\ trends_left = 0
    /\ sync_last = "none"
    /\ sync_result = "none"
    /\ unprocessed = 0
    /\ tl_pc = "loop"
    /\ tl_iter = 0
    /\ tl_last = "none"
    /\ tl_exit_at = "none"

NextSocial ==
    \/ SyncFetch
    \/ SyncToken
    \/ SyncSleep
    \/ TradingLoopIteration

SpecSocial == InitSocial /\ [][NextSocial]_vars


InitAgg ==
    /\ ExecIdle
    /\ max_slippage = 1
    /\ DecIdle
    /\ PipeIdle
    /\ RiskIdle
    /\ PerfIdle
    /\ TechIdle
    /\ BookIdle
    /\ StoreIdle
    /\ StopIdle
    /\ SocialIdle
    /\ agg_providers \in ProviderLists
    /\ agg_limit \in Limits
    /\ agg_pc = "ready"
    /\ agg_result = NoTrends

NextAgg ==
    \/ GetTrendingTokens

SpecAgg == InitAgg /\ [][NextAgg]_vars


(* MarketDataStorage::new: the map is empty or holds what load_positions
   read from data/positions.json *)
InitStore ==
    /\ ExecIdle
    /\ max_slippage = 1
    /\ DecIdle
    /\ PipeIdle
    /\ RiskIdle
    /\ PerfIdle
    /\ TechIdle
    /\ BookIdle
    /\ StopIdle
    /\ SocialIdle
    /\ AggIdle
    /\ store_positions \in
           {[a \in Addrs |-> NoPosition],
            [a \in Addrs |-> IF a = "A" THEN SomePosition(0, <<>>)
                             ELSE NoPosition]}
    /\ positions_json = store_positions
    /\ serial_positions = store_positions
    /\ positions_lock = Unlocked
    /\ task_pc = [t \in Tasks |-> "idle"]
    /\ task_op = [t \in Tasks |-> NoOp]
    /\ task_base = [t \in Tasks |-> NoBase]
    /\ n_ops = 0
    /\ partial_seen = FALSE

NextStore ==
    \/ \E t \in Tasks : StorageCall(t)
    \/ \E t \in Tasks : AcquireWrite(t)
    \/ \E t \in Tasks : UpdateMissing(t)
    \/ \E t \in Tasks : MutateBegin(t)
    \/ \E t \in Tasks : MutateEnd(t)
    \/ \E t \in Tasks : AcquireRead(t)
    \/ \E t \in Tasks : SavePositions(t)
    \/ \E t \in Tasks : GetPosition(t)

SpecStore == InitStore /\ [][NextStore]_vars

----------------------------------------------------------------------------
(* Properties *)

InOrder == mode \in {"market", "dca"}
MarketDone == mode = "market" /\ epc = "done"
DcaDone == mode = "dca" /\ epc = "done"

(* C1: a swap is submitted only for a quote whose price impact is at most
   the engine's max_slippage; a quote above it is never submitted (every
   swap call is matched by a quote that was not too high) and each such
   quote is counted as one attempt, after which the loop sleeps and goes on. *)
C1_SubmitOnlyWithinSlippage ==
    /\ \A s \in submitted : s <= max_slippage
    /\ InOrder =>
        /\ n_swaps + n_high + (IF epc = "swap" THEN 1 ELSE 0) <= n_quotes
        /\ attempts = n_high + n_swap_err
        /\ n_sleeps = attempts

(* a market order that had a quote rejected for slippage, went on, and
   then submitted a quote exactly at max_slippage *)
C1_Witness ==
    /\ MarketDone
    /\ result.tag = "Ok"
    /\ n_high >= 1
    /\ max_slippage \in submitted

(* C2: a market order makes at most max_retries attempts; it returns Ok
   only after a swap that succeeded; and when every attempt was rejected
   for slippage or failed at submit it has made exactly max_retries
   attempts and returns the retries-exhausted error. *)
C2_BoundedRetry ==
    /\ InOrder => attempts <= max_retries /\ n_quotes <= max_retries
    /\ MarketDone =>
        /\ result.tag \in {"Ok", "Err"}
        /\ result.tag = "Ok" => n_swaps = n_swap_err + 1
        /\ (decision.token_ok /\ n_quotes = n_high + n_swap_err) =>
              /\ result = ErrResult("exhausted")
              /\ n_quotes = max_retries

(* three attempts, some rejected for slippage and some failed at submit *)
C2_Witness ==
    /\ MarketDone
    /\ result = ErrResult("exhausted")
    /\ max_retries = DefaultMaxRetries
    /\ n_high >= 1
    /\ n_swap_err >= 1

(* C9: execute_dca_strategy with num_entries >= 1 runs its market orders
   one after the other, exactly num_entries of them, each of size
   size_in_sol / num_entries, whatever succeeds or fails, and returns Ok. *)
C9_DcaRunsEveryTranche ==
    (mode = "dca" /\ decision.dca_config.num_entries >= 1) =>
        /\ epc \in {"loop", "swap"} => n_orders = dca_i + 1
        /\ epc = "dca_sleep" => n_orders = dca_i
        /\ n_orders <= decision.dca_config.num_entries
        /\ order_sizes =
             {Rat(decision.size_in_sol, decision.dca_config.num_entries)}
        /\ epc = "done" =>
             /\ n_orders = decision.dca_config.num_entries
             /\ result.tag = "Ok"

(* three tranches, the last one out of retries, one of the others filled *)
C9_Witness ==
    /\ DcaDone
    /\ decision.dca_config.num_entries = 3
    /\ n_orders = 3
    /\ n_ok = 1
    /\ max_retries > 0
    /\ attempts = max_retries

(* the sum of the sizes of the tranches that succeeded *)
Filled ==
    IF decision.dca_config.num_entries = 0 THEN RInt(0)
    ELSE Rat(n_ok * decision.size_in_sol, decision.dca_config.num_entries)

(* C10: the DCA result reports as executed amount the sum of the sizes of
   the successful tranches, which is at most the target, and its status is
   Completed iff that sum is >= 90% of the target, Partial iff it is
   positive and below 90%, Failed iff it is zero. *)
C10_DcaStatus ==
    DcaDone =>
      LET target == RInt(decision.size_in_sol)
          ninety == Rat(9 * decision.size_in_sol, 10)
      IN  /\ result.amount_sol = Filled
          /\ RLe(Filled, target)
          /\ result.order_status = "Completed" <=> RLe(ninety, Filled)
          /\ result.order_status = "Partial" <=>
                (RLt(RInt(0), Filled) /\ RLt(Filled, ninety))
          /\ result.order_status = "Failed" <=> Filled = RInt(0)

(* nine of ten tranches filled: exactly 90% *)
C10_Witness ==
    /\ DcaDone
    /\ decision.dca_config.num_entries = 10
    /\ n_ok = 9
    /\ result.order_status = "Completed"

(* C3: make_decision returns Buy exactly when the verdict's confidence is
   at least min_confidence, its liquidity score at least 0.7, the risk
   score at most 0.3, its momentum buy or strong_buy and its smart-money
   flow inflow; so never when the risk score is above 0.3. *)
C3_BuyIff ==
    (dpc = "returned" /\ made.tag = "Ok") =>
        /\ made.action = "Buy" <=>
             /\ llm_analysis.confidence.some
             /\ llm_analysis.confidence.v >= config.min_confidence
             /\ llm_analysis.liquidity_score.some
             /\ llm_analysis.liquidity_score.v >= 7
             /\ risk_score <= 3
             /\ llm_analysis.momentum \in {Some("buy"), Some("strong_buy")}
             /\ llm_analysis.smart_money_flow = Some("inflow")
        /\ risk_score > 3 => made.action # "Buy"

(* a Buy at a risk score of exactly 0.3 *)
C3_Witness ==
    /\ dpc = "returned"
    /\ made.tag = "Ok"
    /\ made.action = "Buy"
    /\ risk_score = 3

(* C4: a verdict that is not JSON, or lacks a required field, makes
   make_decision return a Hold decision: no error, no Buy, no Sell. *)
C4_MalformedIsHold ==
    (dpc = "returned" /\ ~WellFormed(llm_analysis)) =>
        (made.tag = "Ok" /\ made.action = "Hold")

(* the monitoring pass of this iteration is over: monitor_positions returned
   Ok, or its error ended main *)
MonitorOver ==
    \/ driver = "sleep"
    \/ driver = "exited" /\ exit_at = "monitor_positions"

(* C5: no analysis, risk, oracle-parse or execution error raised while an
   asset is processed or the positions are monitored ends the driver: main
   never returns because of such an error. *)
C5_NoErrorAbortsDriver ==
    ~(/\ driver = "exited"
      /\ exit_at \in {"analyze_market_data", "analyze_opportunity",
                      "execute_trade", "monitor_positions"})

(* C6: position-size validation is a hard gate: every decision process_token
   hands to execute_trade has a size within [min_position, max_position] and
   at most 20% of the portfolio value. *)
C6_ValidatedBeforeExecution ==
    routed.src = "process_token" =>
        validate_position_size(config, routed.size_in_sol, portfolio_value)

(* C7: a take-profit level is sold once: the partial Sell is sized at the
   level's fraction of the quantity, the level is marked triggered once the
   monitoring pass that sold it has returned, and over all cycles no level is
   sold a second time. *)
C7_TakeProfitOnce ==
    /\ routed.src = "take_profit" =>
          \E l \in 1..MaxLevels :
             LET position == portfolio[routed.token_address]
             IN  /\ l <= Len(position.take_profit_levels.v)
                 /\ routed.size_in_sol =
                      Rat(position.quantity *
                          position.take_profit_levels.v[l].size_percentage, 10)
    /\ \A a \in DOMAIN portfolio : \A l \in 1..MaxLevels :
          /\ tp_sells[a][l] <= 1
          /\ (driver = "sleep" /\ tp_cycle[a][l] > 0) =>
                portfolio[a].take_profit_levels.v[l].triggered

(* C8: when a monitoring pass is over, every position whose price is
   known, with a stop-loss and a price at or below it, got exactly one full-quantity market Sell
   (confidence 1.0, risk score 0, "Stop loss triggered") and no take-profit
   partial exit, and every other position got no stop-loss Sell. *)
C8_StopLossExit ==
    /\ routed.src = "stop_loss" =>
          /\ routed.action = "Sell"
          /\ routed.size_in_sol = RInt(portfolio[routed.token_address].quantity)
          /\ routed.entry_type = "market"
          /\ routed.confidence = 10
          /\ routed.risk_score = 0
          /\ routed.reasoning = "Stop loss triggered"
    /\ MonitorOver =>
          \A a \in DOMAIN portfolio :
             (token_data[a].tag = "Ok" /\ token_data[a].price_usd.some) =>
                IF StopLossHit(portfolio[a], token_data[a])
                THEN /\ sl_sells[a] = 1
                     /\ \A l \in 1..MaxLevels : tp_cycle[a][l] = 0
                ELSE sl_sells[a] = 0

(* C11: the price of a DCA result is the average of the prices of the
   tranches that succeeded, each weighted by its size (the tranches are of
   equal size), and 0 when none succeeded; three tranches out of three
   filled at prices that sum to 3.0, such as 1.0, 1.1 and 0.9, give
   Completed at 1.0. *)
C11_DcaAveragePrice ==
    DcaDone =>
        /\ n_ok = 0 => result.price = RInt(0)
        /\ n_ok > 0 => result.price = RDiv(price_sum, RInt(n_ok))
        /\ (decision.dca_config.num_entries = 3 /\ n_ok = 3
               /\ price_sum = RInt(30)) =>
              /\ result.order_status = "Completed"
              /\ result.price = RInt(10)

(* three tranches out of three filled, at prices that are not all the same
   and sum to 3.0 *)
C11_Witness ==
    /\ DcaDone
    /\ decision.dca_config.num_entries = 3
    /\ n_ok = 3
    /\ price_sum = RInt(30)
    /\ quote.price # 10

LimitDone == mode = "limit" /\ epc = "done"

(* C12: a limit order asks for at most one quote and never submits a swap;
   a Buy or Sell whose quote came back returns Ok with status Partial, type
   Limit and no transaction id; any Ok result is of that form; a Hold is
   returned as an error. *)
C12_LimitIsStub ==
    mode = "limit" =>
        /\ n_swaps = 0
        /\ submitted = {}
        /\ n_quotes <= 1
        /\ LimitDone =>
            /\ decision.token_ok => n_quotes = 1
            /\ decision.action = "Hold" => result.tag = "Err"
            /\ (decision.action \in {"Buy", "Sell"} /\ quote # NoQuote) =>
                  result.tag = "Ok"
            /\ result.tag = "Ok" =>
                  /\ result.order_status = "Partial"
                  /\ result.execution_type = "Limit"
                  /\ ~result.tx_signature
                  /\ result.action = decision.action

(* a limit Sell whose quote came back *)
C12_Witness ==
    /\ LimitDone
    /\ decision.action = "Sell"
    /\ quote # NoQuote
    /\ result.tag = "Ok"

Unit(x) == RLe(RInt(0), x) /\ RLe(x, RInt(1))

(* C13: assess_risk returns 0.3 * volatility + 0.3 * liquidity + 0.2 *
   market + 0.2 * concentration, each of the four components within [0, 1]
   whatever the inputs (portfolio value 0, scores outside [0, 1], an unknown
   trend label), so the risk score is within [0, 1]. *)
C13_RiskScoreWeights ==
    rpc = "assessed" =>
        /\ Unit(assessment.volatility_risk)
        /\ Unit(assessment.liquidity_risk)
        /\ Unit(assessment.market_risk)
        /\ Unit(assessment.concentration_risk)
        /\ Unit(assessment.risk_score)
        /\ RMul(RInt(10), assessment.risk_score) =
             RAdd(RAdd(RMul(RInt(3), assessment.volatility_risk),
                       RMul(RInt(3), assessment.liquidity_risk)),
                  RAdd(RMul(RInt(2), assessment.market_risk),
                       RMul(RInt(2), assessment.concentration_risk)))

(* portfolio value 0, a liquidity score and a sector performance outside
   [0, 1] and an unknown trend label, with unequal components *)
C13_Witness ==
    /\ rpc = "assessed"
    /\ rm_portfolio_value = 0
    /\ assessment.liquidity_score = Rat(15, 10)
    /\ assessment.sector_performance = RInt(3)
    /\ assessment.market_trend = "unknown"
    /\ assessment.volatility_risk = RInt(1)
    /\ assessment.concentration_risk = RInt(1)
    /\ assessment.risk_score = Rat(52, 100)

(* C14: in every state of the RiskManager, for any two risk scores
   r1 <= r2, calculate_max_position_size(r1) >= calculate_max_position_size(r2). *)
C14_MaxPositionMonotone ==
    rpc \in {"ready", "assessed"} =>
        \A r1, r2 \in RiskLevels :
            RLe(r1, r2) =>
                FGe(calculate_max_position_size(r1),
                    calculate_max_position_size(r2))

(* the realized P/L of the recorded trades, in order *)
Realized ==
    LET withPl == SelectSeq(trades, LAMBDA t : t.some)
    IN  [i \in 1..Len(withPl) |-> withPl[i].v]

(* C15: after any sequence of recorded trades, win_rate is the number of
   trades with P/L > 0 over the number of trades with a P/L,
   total_profit_loss is the sum of the P/L, and winning_trades +
   losing_trades = total_trades; P/L [+1.0, -0.5, +2.0] on capital 10.0
   gives win_rate 2/3 and total_profit_loss 2.5. *)
C15_WinRateAndTotal ==
    LET n == Len(Realized)
        wins == Cardinality({i \in 1..n : Realized[i] > 0})
    IN  /\ metrics.total_trades = n
        /\ metrics.winning_trades + metrics.losing_trades = metrics.total_trades
        /\ metrics.total_profit_loss = SumSeq(Realized)
        /\ n > 0 => metrics.win_rate = Rat(wins, n)
        /\ (initial_capital = 100 /\ Realized = <<10, -5, 20>>) =>
              /\ metrics.win_rate = Rat(2, 3)
              /\ metrics.total_profit_loss = 25

(* P/L +1.0, -0.5, +2.0 recorded on capital 10.0 *)
C15_Witness ==
    /\ initial_capital = 100
    /\ trades = <<Some(10), Some(-5), Some(20)>>
    /\ metrics.win_rate = Rat(2, 3)

(* the capital after the first k realized trades, and its peak so far *)
ValueAfter(k) == initial_capital + SumSeq(SubSeq(Realized, 1, k))
PeakAfter(k) ==
    CHOOSE v \in {ValueAfter(j) : j \in 0..k} :
        \A j \in 0..k : ValueAfter(j) <= v
DrawdownAfter(k) == Rat(PeakAfter(k) - ValueAfter(k), PeakAfter(k))

(* the aggregates agree with a replay of the trade log *)
MetricsMatchLog ==
    LET n == Len(Realized)
        wins == Cardinality({i \in 1..n : Realized[i] > 0})
        dds == {DrawdownAfter(k) : k \in 0..n}
    IN  /\ metrics.total_trades = n
        /\ metrics.winning_trades = wins
        /\ metrics.losing_trades = n - wins
        /\ metrics.total_profit_loss = SumSeq(Realized)
        /\ current_capital = ValueAfter(n)
        /\ peak_capital = PeakAfter(n)
        /\ n = 0 => metrics = NoMetrics
        /\ n > 0 =>
             /\ metrics.win_rate = Rat(wins, n)
             /\ metrics.average_return = Rat(SumSeq(Realized), n)
             /\ metrics.max_drawdown \in dds
             /\ \A d \in dds : RLe(d, metrics.max_drawdown)
             /\ metrics.current_drawdown = DrawdownAfter(n)

(* record_trade only appends to the log *)
LogAppendOnly ==
    /\ Len(trades') >= Len(trades)
    /\ SubSeq(trades', 1, Len(trades)) = trades

(* C16: after any sequence of record_trade calls, with or without a P/L
   and with P/L = 0, every aggregate of the metrics equals what a replay of
   the stored trade log from the initial capital gives, and the log is
   append-only. *)
C16_MetricsMatchLog == [](initial_capital > 0 => MetricsMatchLog) /\ [][LogAppendOnly]_vars

(* a log with a trade without P/L, a break-even trade, a gain and a loss
   from the new peak *)
C16_Witness ==
    /\ initial_capital = 100
    /\ trades = <<NoNum, Some(0), Some(10), Some(-5)>>
    /\ metrics.losing_trades = 2
    /\ metrics.max_drawdown = Rat(5, 110)
    /\ metrics.current_drawdown = Rat(5, 110)

(* C17: for every price sequence shorter than 2 * window_size + 1 = 41, the
   empty one and those shorter than the window included, the analyzer
   returns empty support and resistance lists without an error or panic. *)
C17_ShortHistoryEmptyLevels ==
    (tpc = "done" /\ Len(price_history) < 2 * window_size + 1) =>
        /\ analysis.tag = "Ok"
        /\ analysis.support_levels = <<>>
        /\ analysis.resistance_levels = <<>>

(* C18: after any sequence of buy fills and confirmed sell fills the
   portfolio holds an entry for an asset only while its quantity is > 0;
   the entry is removed when the quantity reaches zero. *)
C18_OnlyPositiveQuantityHeld ==
    \A a \in DOMAIN book : book[a].quantity > 0

(* one record_partial_sell step: with a position, its quantity falls by
   exactly q and one PartialSell(q, p) is appended, everything else of the
   portfolio staying as it was; without one, an error and no change *)
PartialSellStep ==
    LET a == last_call'.token_address
        q == last_call'.quantity
        p == last_call'.price_sol
    IN  IF a \in DOMAIN book
        THEN /\ call_result' = "Ok"
             /\ DOMAIN book' = DOMAIN book
             /\ \A b \in DOMAIN book \ {a} : book'[b] = book[b]
             /\ book'[a].quantity = book[a].quantity - q
             /\ Len(book'[a].partial_sells) = Len(book[a].partial_sells) + 1
             /\ SubSeq(book'[a].partial_sells, 1, Len(book[a].partial_sells))
                   = book[a].partial_sells
             /\ LET ps == book'[a].partial_sells[Len(book'[a].partial_sells)]
                IN  ps.quantity = q /\ ps.price_sol = p
             /\ book'[a].cost_basis_sol = book[a].cost_basis_sol
             /\ book'[a].entry_timestamp = book[a].entry_timestamp
             /\ book'[a].token = book[a].token
        ELSE /\ call_result' = "Err"
             /\ book' = book

(* C19: record_partial_sell(asset, q, p) lowers that position's quantity by
   exactly q and appends exactly one PartialSell(q, p) at the end of its
   list, leaving its cost basis, entry timestamp, token snapshot and every
   other position unchanged; with no position for the asset it returns an
   error and the portfolio is unchanged. *)
C19_SellFrame ==
    [][last_call'.op = "record_partial_sell" => PartialSellStep]_vars

(* a second sell of A at a later time than its entry, B being held too *)
C19_Witness ==
    /\ last_call.op = "record_partial_sell"
    /\ last_call.token_address = "A"
    /\ call_result = "Ok"
    /\ DOMAIN book = {"A", "B"}
    /\ Len(book["A"].partial_sells) = 2
    /\ book["A"].entry_timestamp = 0
    /\ book["A"].partial_sells[2].timestamp = 1
    /\ book["A"].partial_sells[2].quantity = 10

(* C20: a failed or timed-out venue call during a market order, the quote
   call as well as the submit call, counts as one failed attempt and not as
   a fatal error: execute_market_order returns no error before max_retries
   attempts have been made. *)
C20_VenueFailureIsRetry ==
    (MarketDone /\ decision.token_ok /\ result.tag = "Err") =>
        attempts = max_retries

(* C24: within one execute_market_order call the attempts run one after the
   other, each starting with its own quote; a submit uses the quote of its
   own attempt, never one kept from an earlier attempt; every attempt the
   loop counts as failed is followed by one backoff sleep; and after a
   submit succeeded the call issues no further quote or submit (at most one
   successful submission per call). *)
C24_SequentialRetries ==
    InOrder =>
        /\ epc = "loop" => quote = NoQuote /\ n_quotes = attempts
        /\ epc = "swap" =>
              /\ quote # NoQuote
              /\ ~SlippageTooHigh(quote)
              /\ n_quotes = attempts + 1
              /\ n_swaps = n_swap_err
        /\ n_sleeps = attempts
        /\ n_swaps <= n_quotes
        /\ n_swaps - n_swap_err \in {0, 1}
        /\ n_swaps - n_swap_err = 1 =>
              /\ epc \notin {"loop", "swap"}
              /\ n_quotes = attempts + 1

(* a call whose first attempt was rejected for slippage, whose second
   failed at submit and whose third was submitted with success *)
C24_Witness ==
    /\ MarketDone
    /\ result.tag = "Ok"
    /\ n_quotes = 3
    /\ n_high = 1
    /\ n_swap_err = 1
    /\ n_sleeps = 2
    /\ n_swaps = 2

(* C28: the limit price of execute_limit_order is the quote moved by the
   decision's max slippage against the trader: quote * (1 + max_slippage)
   for a Buy, never below the quote, and quote * (1 - max_slippage) for a
   Sell, never above the quote. *)
C28_LimitPriceUnfavorable ==
    (LimitDone /\ result.tag = "Ok") =>
        /\ decision.action = "Buy" =>
              /\ result.price = RMul(RInt(quote.price),
                                     Rat(100 + decision.max_slippage, 100))
              /\ RLe(RInt(quote.price), result.price)
        /\ decision.action = "Sell" =>
              /\ result.price = RMul(RInt(quote.price),
                                     Rat(100 - decision.max_slippage, 100))
              /\ RLe(result.price, RInt(quote.price))

(* the Buy and the Sell condition on the inputs of the returned call *)
BuyCondition ==
    /\ UnwrapOr(llm_analysis.confidence, 0) >= config.min_confidence
    /\ UnwrapOr(llm_analysis.liquidity_score, 0) >= 7
    /\ risk_score <= 3
    /\ UnwrapOr(llm_analysis.momentum, "neutral") \in {"buy", "strong_buy"}
    /\ UnwrapOr(llm_analysis.smart_money_flow, "neutral") = "inflow"
SellCondition ==
    \/ risk_score > 7
    \/ UnwrapOr(llm_analysis.momentum, "neutral") = "strong_sell"
    \/ UnwrapOr(llm_analysis.smart_money_flow, "neutral") = "outflow"

(* C25: when the Buy conditions do not hold make_decision returns Sell
   exactly when the risk score is above 0.7, or the momentum is strong_sell,
   or the smart-money flow is outflow, and Hold otherwise; the Buy and the
   Sell conditions never hold together, so the action does not depend on
   the order in which they are tested. *)
C25_SellIffElseHold ==
    (dpc = "returned" /\ made.tag = "Ok") =>
        /\ ~(BuyCondition /\ SellCondition)
        /\ made.action \in {"Buy", "Sell", "Hold"}
        /\ made.action = "Sell" <=> SellCondition
        /\ made.action = "Hold" <=> (~BuyCondition /\ ~SellCondition)

(* a Hold at a risk score of exactly 0.7, with nothing else asking to sell *)
C25_Witness ==
    /\ dpc = "returned"
    /\ made.tag = "Ok"
    /\ made.action = "Hold"
    /\ risk_score = 7
    /\ llm_analysis.momentum = Some("sell")

(* C26: the size of every decision make_decision returns lies within
   [min_position, max_position], for every risk score, confidence,
   liquidity score and momentum, the configuration having
   min_position <= max_position. *)
C26_SizeClamped ==
    (dpc = "returned" /\ made.tag = "Ok"
        /\ config.min_position_sol <= config.max_position_sol) =>
        /\ RLe(RInt(config.min_position_sol), made.size_in_sol)
        /\ RLe(made.size_in_sol, RInt(config.max_position_sol))

(* a decision at risk score 1.0, whose product of 0 was raised to the
   minimum, made from a confidence above 1 *)
C26_Witness ==
    /\ dpc = "returned"
    /\ made.tag = "Ok"
    /\ risk_score = 10
    /\ llm_analysis.confidence = Some(100)
    /\ made.size_in_sol = RInt(config.min_position_sol)

(* the support level nearest to the current price *)
NearestSupport ==
    CHOOSE s \in {sl_support_levels[i] : i \in DOMAIN sl_support_levels} :
        \A i \in DOMAIN sl_support_levels :
            Abs(sl_price_usd.v - s) <= Abs(sl_price_usd.v - sl_support_levels[i])

(* C27: calculate_stop_loss returns the support level nearest to the current
   price when that level lies more than 2% and less than 15% below the
   price; otherwise, also when there is no support level at all, it returns
   the current price minus twice the volatility-implied ATR
   (volatility_score * price). *)
C27_StopLossSelection ==
    (slpc = "done" /\ sl_price_usd.some) =>
        LET p == sl_price_usd.v
            atrStop == Some(RAdd(RInt(p),
                                 RMul(RInt(-2), RMul(sl_volatility, RInt(p)))))
        IN  IF sl_support_levels = <<>> THEN stop_loss_price = atrStop
            ELSE LET distance == Rat(p - NearestSupport, p)
                 IN  IF RLt(Rat(2, 100), distance) /\ RLt(distance, Rat(15, 100))
                     THEN stop_loss_price = Some(RInt(NearestSupport))
                     ELSE stop_loss_price = atrStop

(* C29: analyze on the 10-sample series of the analyzer's unit test (10.0,
   11.0, 10.5, 11.5, 12.0, 11.8, 11.9, 12.1, 12.3, 12.2) succeeds and
   returns a volatility score above 0, a non-empty support list and a
   non-empty resistance list. *)
C29_UnitTestSeries ==
    (tpc = "done" /\ price_history = TestPrices) =>
        /\ analysis.tag = "Ok"
        /\ analysis.volatility_positive
        /\ analysis.support_levels # <<>>
        /\ analysis.resistance_levels # <<>>

(* C30: process_token calls execute_trade at most once per asset and
   iteration, and only for an asset that meets the basic criteria (liquidity
   at least 100k, 24h volume at least 50k, verified, holder concentration
   at most 0.4), whose assessed risk score is at most 0.7, and for a
   decision whose action is Buy or Sell and whose confidence is at least
   0.8; in every other case no call is made. *)
C30_ExecutionGate ==
    driver = "tokens" =>
        /\ \A i \in DOMAIN n_exec :
              /\ n_exec[i] <= 1
              /\ n_exec[i] = 1 => i <= tok_i /\ i <= Len(trending)
        /\ (tok_i <= Len(trending) /\ ppc # "execute") => n_exec[tok_i] = 0
        /\ ppc = "execute" =>
              /\ n_exec[tok_i] = 1
              /\ routed.src = "process_token"
              /\ routed.token_address = trending[tok_i]
              /\ pt_locals.some
              /\ pt_locals.token_data.liquidity_usd >= 100000
              /\ pt_locals.token_data.volume_24h >= 50000
              /\ pt_locals.token_data.is_verified
              /\ pt_locals.token_data.holder_concentration <= 4
              /\ pt_locals.risk_score <= 7
              /\ routed.action \in {"Buy", "Sell"}
              /\ routed.confidence >= 8

(* the second token of an iteration is handed to execute_trade as a Sell, at
   an assessed risk score of exactly 0.7, the first one having been traded *)
C30_Witness ==
    /\ driver = "tokens"
    /\ ppc = "execute"
    /\ tok_i = 2
    /\ n_exec = [i \in 1..2 |-> 1]
    /\ pt_locals.risk_score = 7
    /\ routed.action = "Sell"
    /\ routed.confidence = 10

(* C21: after a swap was executed, a failure to generate or to post the
   trade announcement does not turn the trade into an error, does not keep
   the remaining assets of the cycle from being processed, and does not
   stop the trading loop. *)
C21_AnnouncementNeverBlocks ==
    /\ sync_last \in {"tweet_gen_err", "tweet_post_err"} =>
          /\ sync_result # "Err"
          /\ unprocessed = 0
    /\ tl_last = "post_trade" => tl_pc # "exited"

(* the distinct token addresses returned by the providers that succeeded *)
SucceededAddresses ==
    UNION {{agg_providers[i].addrs[k] : k \in DOMAIN agg_providers[i].addrs} :
           i \in {i \in DOMAIN agg_providers : agg_providers[i].tag = "Ok"}}

(* C22: get_trending_tokens always succeeds, failed providers being skipped;
   no two entries of its result share a token address; the result has
   min(limit, number of distinct addresses of the succeeded providers)
   entries; two providers that both return the test's five addresses give
   exactly five entries for limit 5. *)
C22_DedupByAddress ==
    agg_pc = "done" =>
        /\ agg_result.tag = "Ok"
        /\ \A i, j \in DOMAIN agg_result.trends :
              i # j => agg_result.trends[i].token_address #
                       agg_result.trends[j].token_address
        /\ Len(agg_result.trends) =
              MinOf({agg_limit, Cardinality(SucceededAddresses)})
        /\ (/\ agg_providers =
                  <<ProviderOk(TestAddresses), ProviderOk(TestAddresses)>>
            /\ agg_limit = TestLimit) => Len(agg_result.trends) = 5

C22_Witness ==
    /\ agg_pc = "done"
    /\ agg_providers = <<ProviderOk(TestAddresses), ProviderErr>>
    /\ agg_limit = 3
    /\ Len(agg_result.trends) = 3

(* C23: writes to the shared positions map are serialized: at most one task
   holds the write guard, and none while a read guard is held; no reader
   clones the map in the middle of a write; the map always equals the
   completed writes applied one after another, so no write is lost. *)
C23_WritesSerialized ==
    /\ Cardinality(WriteGuards) <= 1
    /\ WriteGuards # {} => positions_lock.readers = {}
    /\ ~partial_seen
    /\ store_positions = serial_positions

C23_Witness ==
    /\ \E t, u \in Tasks :
          /\ task_pc[t] = "mutating"
          /\ task_pc[u] = "want_write"
          /\ task_op[t].addr = task_op[u].addr
    /\ store_positions["A"].some
    /\ Len(store_positions["A"].partial_sells) >= 1

====
